---- MODULE Spec2Model ----
(***************************************************************************)
(* The two-robot warehouse game: the grid state model of WarehouseEnv.py,  *)
(* the search agents of submission.py and the game loops that drive them.  *)
(*                                                                         *)
(* Python objects live in `heap', a sequence of records indexed by object  *)
(* id, so that copy.copy's sharing of references is part of the model.     *)
(* Python's 0-based robot_index r addresses element r + 1 of a sequence.   *)
(***************************************************************************)
EXTENDS Integers, Sequences, FiniteSets, TLC

VARIABLES
    heap,     \* the objects allocated so far (Robot, Package, ChargeStation)
    env,      \* the live WarehouseEnv
    cl,       \* a WarehouseEnv obtained from env.clone(), or NoEnv
    last,     \* the most recent call made on env or cl, with its outcome
    search,   \* the most recent run_step / execute_agent_step call
    sim,      \* control state of GameSimulator.run
    gui       \* control state of GameScreen

vars == <<heap, env, cl, last, search, sim, gui>>

board_size == 5

None == 0

\* ---------------------------------------------------------------- bounds
NumSteps == 4          \* num_steps handed to generate / load_from_map_data

\* ------------------------------------------------- random.seed / sample
\* RandTable[s + 1] = <<random.randint(0, 255), random.sample(cells, 2)>>
\* after random.seed(s), for the 25 cells of the 5x5 board (CPython 3.11).
\* random.sample(cells, 1) is the first of the two sampled cells.
RandTable == <<
    <<197, <<4, 4>>, <<2, 3>>>>, <<68, <<3, 3>>, <<4, 4>>>>, <<28, <<0, 2>>, <<2, 1>>>>, <<121, <<3, 3>>, <<3, 2>>>>,
    <<120, <<1, 4>>, <<0, 3>>>>, <<130, <<4, 3>>, <<2, 1>>>>, <<41, <<3, 0>>, <<4, 4>>>>, <<165, <<0, 4>>, <<2, 2>>>>,
    <<116, <<2, 1>>, <<2, 2>>>>, <<237, <<3, 4>>, <<2, 1>>>>, <<16, <<2, 3>>, <<3, 0>>>>, <<231, <<3, 2>>, <<4, 4>>>>,
    <<242, <<1, 3>>, <<4, 1>>>>, <<132, <<1, 4>>, <<4, 1>>>>, <<54, <<3, 4>>, <<4, 2>>>>, <<106, <<0, 0>>, <<3, 1>>>>,
    <<185, <<3, 0>>, <<1, 4>>>>, <<212, <<1, 4>>, <<2, 1>>>>, <<92, <<0, 3>>, <<4, 1>>>>, <<22, <<3, 1>>, <<0, 3>>>>,
    <<77, <<1, 3>>, <<4, 1>>>>, <<84, <<2, 3>>, <<4, 2>>>>, <<71, <<1, 2>>, <<0, 0>>>>, <<148, <<0, 2>>, <<0, 0>>>>,
    <<196, <<3, 3>>, <<1, 0>>>>, <<193, <<4, 4>>, <<0, 0>>>>, <<103, <<4, 1>>, <<1, 1>>>>, <<245, <<4, 2>>, <<1, 3>>>>,
    <<57, <<4, 3>>, <<0, 4>>>>, <<38, <<2, 1>>, <<3, 4>>>>, <<148, <<3, 4>>, <<0, 0>>>>, <<6, <<3, 0>>, <<0, 3>>>>,
    <<39, <<1, 1>>, <<0, 4>>>>, <<85, <<4, 0>>, <<1, 2>>>>, <<182, <<3, 3>>, <<0, 0>>>>, <<171, <<4, 4>>, <<0, 4>>>>,
    <<168, <<0, 1>>, <<0, 0>>>>, <<46, <<3, 4>>, <<4, 1>>>>, <<215, <<2, 3>>, <<4, 4>>>>, <<107, <<1, 3>>, <<2, 2>>>>,
    <<234, <<3, 3>>, <<3, 1>>>>, <<195, <<2, 0>>, <<1, 2>>>>, <<57, <<0, 0>>, <<4, 3>>>>, <<19, <<1, 4>>, <<4, 2>>>>,
    <<209, <<3, 1>>, <<3, 2>>>>, <<139, <<2, 3>>, <<3, 0>>>>, <<39, <<2, 2>>, <<0, 1>>>>, <<180, <<0, 2>>, <<2, 3>>>>,
    <<161, <<0, 4>>, <<3, 2>>>>, <<34, <<2, 1>>, <<2, 3>>>>, <<254, <<1, 3>>, <<2, 1>>>>, <<124, <<3, 1>>, <<3, 2>>>>,
    <<137, <<0, 1>>, <<4, 3>>>>, <<110, <<2, 4>>, <<3, 1>>>>, <<70, <<2, 4>>, <<3, 2>>>>, <<46, <<1, 1>>, <<0, 4>>>>,
    <<5, <<3, 0>>, <<4, 0>>>>, <<21, <<2, 1>>, <<3, 3>>>>, <<100, <<1, 1>>, <<4, 3>>>>, <<114, <<0, 2>>, <<4, 0>>>>,
    <<157, <<1, 4>>, <<3, 3>>>>, <<253, <<1, 0>>, <<3, 2>>>>, <<88, <<0, 2>>, <<1, 2>>>>, <<227, <<2, 4>>, <<1, 4>>>>,
    <<243, <<0, 3>>, <<4, 0>>>>, <<212, <<1, 4>>, <<3, 1>>>>, <<36, <<1, 4>>, <<2, 3>>>>, <<38, <<0, 3>>, <<4, 4>>>>,
    <<238, <<4, 2>>, <<4, 3>>>>, <<19, <<0, 3>>, <<1, 0>>>>, <<60, <<1, 4>>, <<4, 2>>>>, <<165, <<3, 1>>, <<3, 4>>>>,
    <<37, <<3, 4>>, <<4, 3>>>>, <<143, <<0, 3>>, <<3, 1>>>>, <<58, <<2, 0>>, <<0, 3>>>>, <<230, <<3, 3>>, <<2, 3>>>>,
    <<189, <<2, 4>>, <<2, 2>>>>, <<129, <<2, 0>>, <<1, 1>>>>, <<96, <<0, 3>>, <<1, 4>>>>, <<74, <<2, 4>>, <<2, 1>>>>,
    <<139, <<2, 2>>, <<3, 2>>>>, <<232, <<2, 0>>, <<3, 2>>>>, <<74, <<4, 4>>, <<3, 0>>>>, <<254, <<2, 4>>, <<0, 2>>>>,
    <<145, <<4, 4>>, <<0, 1>>>>, <<102, <<4, 2>>, <<3, 4>>>>, <<15, <<3, 2>>, <<2, 0>>>>, <<74, <<4, 3>>, <<1, 1>>>>,
    <<203, <<1, 1>>, <<2, 0>>>>, <<41, <<4, 4>>, <<3, 4>>>>, <<104, <<4, 2>>, <<0, 2>>>>, <<42, <<3, 3>>, <<1, 0>>>>,
    <<215, <<3, 1>>, <<3, 3>>>>, <<253, <<3, 3>>, <<4, 3>>>>, <<93, <<0, 3>>, <<1, 3>>>>, <<65, <<3, 0>>, <<0, 0>>>>,
    <<189, <<2, 0>>, <<4, 1>>>>, <<99, <<2, 3>>, <<2, 1>>>>, <<182, <<3, 3>>, <<0, 1>>>>, <<206, <<2, 2>>, <<1, 1>>>>,
    <<74, <<2, 4>>, <<4, 4>>>>, <<99, <<3, 2>>, <<2, 1>>>>, <<75, <<4, 1>>, <<3, 4>>>>, <<233, <<4, 3>>, <<4, 2>>>>,
    <<10, <<1, 1>>, <<4, 3>>>>, <<178, <<3, 3>>, <<0, 3>>>>, <<245, <<0, 0>>, <<3, 2>>>>, <<126, <<3, 4>>, <<3, 3>>>>,
    <<66, <<4, 2>>, <<0, 2>>>>, <<143, <<1, 2>>, <<2, 4>>>>, <<198, <<3, 4>>, <<1, 2>>>>, <<108, <<2, 0>>, <<3, 0>>>>,
    <<246, <<4, 1>>, <<3, 3>>>>, <<15, <<4, 0>>, <<4, 3>>>>, <<123, <<3, 3>>, <<0, 3>>>>, <<145, <<1, 1>>, <<4, 4>>>>,
    <<152, <<0, 0>>, <<4, 4>>>>, <<122, <<1, 0>>, <<1, 1>>>>, <<93, <<1, 4>>, <<0, 3>>>>, <<146, <<1, 0>>, <<4, 3>>>>,
    <<126, <<1, 1>>, <<4, 0>>>>, <<44, <<1, 1>>, <<3, 3>>>>, <<109, <<3, 4>>, <<1, 4>>>>, <<26, <<1, 3>>, <<0, 2>>>>,
    <<142, <<3, 2>>, <<0, 0>>>>, <<124, <<1, 2>>, <<3, 4>>>>, <<30, <<3, 3>>, <<3, 4>>>>, <<22, <<3, 4>>, <<3, 3>>>>,
    <<121, <<2, 2>>, <<3, 1>>>>, <<139, <<0, 1>>, <<4, 2>>>>, <<217, <<1, 3>>, <<4, 3>>>>, <<161, <<2, 1>>, <<4, 4>>>>,
    <<211, <<0, 4>>, <<2, 3>>>>, <<252, <<2, 1>>, <<3, 0>>>>, <<247, <<3, 1>>, <<1, 1>>>>, <<191, <<4, 0>>, <<3, 3>>>>,
    <<219, <<3, 1>>, <<0, 1>>>>, <<37, <<1, 0>>, <<2, 3>>>>, <<99, <<2, 2>>, <<2, 4>>>>, <<0, <<4, 2>>, <<3, 4>>>>,
    <<48, <<0, 0>>, <<1, 3>>>>, <<15, <<3, 3>>, <<3, 0>>>>, <<249, <<1, 0>>, <<3, 0>>>>, <<94, <<0, 1>>, <<0, 0>>>>,
    <<229, <<0, 1>>, <<2, 4>>>>, <<216, <<3, 1>>, <<0, 0>>>>, <<68, <<0, 4>>, <<3, 4>>>>, <<76, <<2, 2>>, <<2, 4>>>>,
    <<206, <<4, 2>>, <<4, 0>>>>, <<36, <<0, 3>>, <<1, 3>>>>, <<167, <<2, 2>>, <<1, 1>>>>, <<209, <<4, 2>>, <<4, 0>>>>,
    <<200, <<4, 0>>, <<0, 4>>>>, <<251, <<0, 2>>, <<0, 1>>>>, <<104, <<2, 2>>, <<3, 0>>>>, <<146, <<4, 1>>, <<4, 4>>>>,
    <<249, <<2, 3>>, <<4, 3>>>>, <<251, <<1, 2>>, <<1, 0>>>>, <<112, <<0, 3>>, <<0, 1>>>>, <<201, <<1, 0>>, <<4, 1>>>>,
    <<62, <<3, 1>>, <<2, 0>>>>, <<104, <<3, 2>>, <<1, 0>>>>, <<27, <<4, 2>>, <<4, 0>>>>, <<234, <<3, 3>>, <<1, 0>>>>,
    <<48, <<4, 3>>, <<1, 4>>>>, <<8, <<0, 1>>, <<4, 2>>>>, <<91, <<4, 0>>, <<3, 4>>>>, <<117, <<0, 2>>, <<2, 0>>>>,
    <<58, <<3, 1>>, <<2, 1>>>>, <<130, <<3, 1>>, <<3, 4>>>>, <<176, <<3, 3>>, <<2, 0>>>>, <<198, <<2, 3>>, <<0, 3>>>>,
    <<180, <<1, 1>>, <<1, 4>>>>, <<165, <<3, 0>>, <<4, 1>>>>, <<2, <<2, 4>>, <<0, 0>>>>, <<227, <<1, 2>>, <<0, 1>>>>,
    <<15, <<0, 1>>, <<4, 4>>>>, <<110, <<3, 0>>, <<2, 3>>>>, <<57, <<3, 2>>, <<2, 4>>>>, <<101, <<0, 3>>, <<0, 2>>>>,
    <<73, <<0, 2>>, <<4, 1>>>>, <<53, <<0, 1>>, <<2, 0>>>>, <<231, <<2, 1>>, <<1, 2>>>>, <<55, <<0, 2>>, <<4, 3>>>>,
    <<141, <<0, 0>>, <<1, 2>>>>, <<57, <<0, 4>>, <<1, 4>>>>, <<175, <<4, 1>>, <<2, 3>>>>, <<179, <<3, 0>>, <<3, 3>>>>,
    <<113, <<1, 3>>, <<0, 0>>>>, <<247, <<4, 3>>, <<1, 3>>>>, <<38, <<1, 0>>, <<4, 4>>>>, <<74, <<4, 4>>, <<2, 2>>>>,
    <<191, <<1, 4>>, <<0, 2>>>>, <<236, <<4, 4>>, <<1, 0>>>>, <<34, <<3, 3>>, <<0, 4>>>>, <<202, <<0, 1>>, <<4, 0>>>>,
    <<14, <<1, 1>>, <<4, 4>>>>, <<7, <<0, 4>>, <<1, 0>>>>, <<27, <<3, 3>>, <<4, 2>>>>, <<176, <<4, 3>>, <<2, 2>>>>,
    <<23, <<1, 1>>, <<4, 3>>>>, <<34, <<4, 2>>, <<2, 0>>>>, <<197, <<4, 0>>, <<3, 0>>>>, <<46, <<0, 1>>, <<3, 0>>>>,
    <<203, <<0, 2>>, <<3, 3>>>>, <<222, <<3, 0>>, <<4, 3>>>>, <<4, <<0, 2>>, <<1, 4>>>>, <<113, <<4, 3>>, <<1, 0>>>>,
    <<142, <<3, 1>>, <<4, 4>>>>, <<11, <<1, 0>>, <<3, 3>>>>, <<196, <<0, 0>>, <<4, 1>>>>, <<182, <<4, 3>>, <<1, 2>>>>,
    <<202, <<3, 4>>, <<0, 1>>>>, <<77, <<2, 3>>, <<1, 2>>>>, <<181, <<2, 3>>, <<1, 4>>>>, <<22, <<4, 0>>, <<2, 0>>>>,
    <<106, <<4, 0>>, <<1, 0>>>>, <<146, <<1, 2>>, <<1, 0>>>>, <<153, <<1, 0>>, <<0, 3>>>>, <<174, <<3, 1>>, <<0, 1>>>>,
    <<119, <<4, 3>>, <<1, 2>>>>, <<125, <<2, 3>>, <<0, 2>>>>, <<55, <<1, 2>>, <<1, 4>>>>, <<170, <<2, 1>>, <<2, 4>>>>,
    <<32, <<1, 1>>, <<2, 4>>>>, <<122, <<1, 0>>, <<4, 3>>>>, <<247, <<0, 1>>, <<4, 0>>>>, <<204, <<4, 1>>, <<2, 1>>>>,
    <<112, <<3, 3>>, <<1, 2>>>>, <<71, <<1, 2>>, <<3, 2>>>>, <<82, <<1, 4>>, <<4, 3>>>>, <<11, <<0, 4>>, <<2, 2>>>>,
    <<143, <<0, 3>>, <<1, 2>>>>, <<89, <<3, 1>>, <<1, 2>>>>, <<175, <<1, 3>>, <<0, 1>>>>, <<177, <<4, 3>>, <<3, 1>>>>,
    <<189, <<3, 0>>, <<4, 3>>>>, <<253, <<1, 0>>, <<1, 2>>>>, <<190, <<0, 2>>, <<2, 3>>>>, <<60, <<1, 1>>, <<4, 2>>>>,
    <<30, <<0, 1>>, <<2, 0>>>>, <<53, <<2, 1>>, <<4, 2>>>>, <<171, <<0, 0>>, <<3, 0>>>>, <<160, <<2, 3>>, <<0, 1>>>>,
    <<209, <<2, 2>>, <<3, 3>>>>, <<64, <<1, 4>>, <<3, 0>>>>, <<30, <<3, 1>>, <<2, 2>>>>, <<234, <<2, 0>>, <<0, 0>>>>,
    <<212, <<4, 3>>, <<3, 0>>>>, <<138, <<3, 3>>, <<3, 4>>>>, <<198, <<2, 2>>, <<1, 0>>>>, <<227, <<4, 1>>, <<2, 2>>>>,
    <<8, <<4, 1>>, <<1, 4>>>>, <<195, <<2, 3>>, <<0, 4>>>>, <<191, <<3, 1>>, <<1, 3>>>>, <<28, <<2, 0>>, <<4, 0>>>>
>>

\* ----------------------------------------------------------- WarehouseEnv
manhattan_distance(p0, p1) ==
    (IF p0[1] >= p1[1] THEN p0[1] - p1[1] ELSE p1[1] - p0[1])
  + (IF p0[2] >= p1[2] THEN p0[2] - p1[2] ELSE p1[2] - p0[2])

Robot(position, battery, credit) ==
    [cls |-> "Robot", position |-> position, battery |-> battery,
     credit |-> credit, package |-> None]

Package(position, destination) ==
    [cls |-> "Package", position |-> position, destination |-> destination,
     on_board |-> FALSE]

ChargeStation(position) ==
    [cls |-> "ChargeStation", position |-> position]

\* copy.copy(obj): a new object with the same attribute values; an
\* attribute that is a reference (Robot.package) still names the same object.
copy(h, id) == h[id]

\* The ids given to n objects allocated one after the other on heap h.
NewIds(h, n) == [i \in 1..n |-> Len(h) + i]

CopyAll(h, ids) == [i \in 1..Len(ids) |-> copy(h, ids[i])]

\* clone() that copies the robot list but not the Robot objects in it.
clone_shared_robots(h, e) ==
    LET h2 == h \o CopyAll(h, e.packages)
        h3 == h2 \o CopyAll(h, e.charge_stations)
    IN  [heap |-> h3,
         env  |-> [num_steps       |-> e.num_steps,
                   seed            |-> e.seed,
                   robots          |-> e.robots,
                   packages        |-> NewIds(h, Len(e.packages)),
                   charge_stations |-> NewIds(h2, Len(e.charge_stations))]]

\* clone() that copies the package list but not the Package objects in it.
clone_shared_packages(h, e) ==
    LET h1 == h \o CopyAll(h, e.robots)
        h3 == h1 \o CopyAll(h, e.charge_stations)
    IN  [heap |-> h3,
         env  |-> [num_steps       |-> e.num_steps,
                   seed            |-> e.seed,
                   robots          |-> NewIds(h, Len(e.robots)),
                   packages        |-> e.packages,
                   charge_stations |-> NewIds(h1, Len(e.charge_stations))]]

clone(h, e) ==
    LET h1 == h \o CopyAll(h, e.robots)
        h2 == h1 \o CopyAll(h, e.packages)
        h3 == h2 \o CopyAll(h, e.charge_stations)
    IN  [heap |-> h3,
         env  |-> [num_steps       |-> e.num_steps,
                   seed            |-> e.seed,
                   robots          |-> NewIds(h, Len(e.robots)),
                   packages        |-> NewIds(h1, Len(e.packages)),
                   charge_stations |-> NewIds(h2, Len(e.charge_stations))]]

\* random_cells: reseeds the generator from self.seed, replaces self.seed by
\* the first draw and samples `count' distinct cells of the board.
random_cells(seed, count) ==
    LET drawn(row) == [seed  |-> row[1],
                       cells |-> SubSeq(<<row[2], row[3]>>, 1, count)]
    IN  drawn(RandTable[seed + 1])

get_robot(h, e, robot_id) == h[e.robots[robot_id + 1]]

\* The first of the objects `ids' standing on `position', None if there is none.
FirstIn(h, ids, position) ==
    LET first(hits) == IF Len(hits) = 0 THEN None ELSE hits[1]
    IN  first(SelectSeq(ids, LAMBDA id : h[id].position = position))

\* robots[0] of the whole list instead of the robots found on the cell.
get_robot_in_first(h, e, position) ==
    IF Len(e.robots) = 0 THEN None ELSE e.robots[1]

\* A comparison of positions that never succeeds.
get_robot_in_none(h, e, position) == None

get_robot_in(h, e, position) == FirstIn(h, e.robots, position)

get_charge_station_in(h, e, position) == FirstIn(h, e.charge_stations, position)

\* The slice [0:1] instead of [0:2].
get_package_in_first_slot(h, e, position) ==
    FirstIn(h, SubSeq(e.packages, 1, IF Len(e.packages) < 1 THEN 0 ELSE 1), position)

\* Only the first two entries of the package list are looked at.
get_package_in(h, e, position) ==
    FirstIn(h, SubSeq(e.packages, 1, IF Len(e.packages) < 2 THEN Len(e.packages) ELSE 2),
            position)

MoveOps ==
    << <<"move north", <<0, -1>>>>, <<"move south", <<0, 1>>>>,
       <<"move west", <<-1, 0>>>>,  <<"move east", <<1, 0>>>> >>

InSeq(x, s) == \E i \in 1..Len(s) : s[i] = x

\* The battery test written with >= instead of >.
can_move_nonneg(robot) == robot.battery >= 0

\* `battery > 0': the robot may move; otherwise it may only park.
can_move(robot) == robot.battery > 0

get_legal_operators(h, e, robot_index) ==
    LET robot     == h[e.robots[robot_index + 1]]
        robot_pos == robot.position
        inside(x, y) == /\ board_size > x /\ x >= 0
                        /\ board_size > y /\ y >= 0
                        /\ get_robot_in(h, e, <<x, y>>) = None
        free(m) == inside(robot_pos[1] + m[2][1], robot_pos[2] + m[2][2])
        names(moves) == [i \in 1..Len(moves) |-> moves[i][1]]
        pick_up(ops, package) ==
            IF robot.package = None /\ package # None /\ h[package].on_board
            THEN Append(ops, "pick up") ELSE ops
        drop_off(ops) ==
            pick_up(IF robot.package # None /\ h[robot.package].destination = robot_pos
                    THEN Append(ops, "drop off") ELSE ops,
                    get_package_in(h, e, robot_pos))
        charge(ops) ==
            drop_off(IF get_charge_station_in(h, e, robot_pos) # None /\ robot.credit > 0
                     THEN Append(ops, "charge") ELSE ops)
    IN  charge(IF can_move(robot) THEN names(SelectSeq(MoveOps, free)) ELSE <<"park">>)

\* A move paid for with the battery of both robots.
move_robot_drains_both(h, e, robot_index, offset) ==
    LET rid == e.robots[robot_index + 1]
        oid == e.robots[((robot_index + 1) % 2) + 1]
    IN  [h EXCEPT ![rid].position = <<@[1] + offset[1], @[2] + offset[2]>>,
                  ![rid].battery = @ - 1,
                  ![oid].battery = @ - 1]

move_robot(h, e, robot_index, offset) ==
    [h EXCEPT ![e.robots[robot_index + 1]].position = <<@[1] + offset[1], @[2] + offset[2]>>,
              ![e.robots[robot_index + 1]].battery  = @ - 1]

\* list.remove(x): drops the first entry that is the object x.
ListRemove(s, x) ==
    LET i == CHOOSE k \in 1..Len(s) : s[k] = x /\ \A j \in 1..(k - 1) : s[j] # x
    IN  SubSeq(s, 1, i - 1) \o SubSeq(s, i + 1, Len(s))

\* A generator that is never reseeded: what it yields depends on how many
\* objects were made before, here through the size of the heap.
spawn_package_unseeded(h, e) ==
    LET spawned(ps) ==
            [heap |-> Append(h, Package(ps.cells[1], ps.cells[2])),
             env  |-> [e EXCEPT !.seed = ps.seed,
                                !.packages = Append(@, Len(h) + 1)]]
    IN  spawned(random_cells(Len(h) % Len(RandTable), 2))

spawn_package(h, e) ==
    LET spawned(ps) ==
            [heap |-> Append(h, Package(ps.cells[1], ps.cells[2])),
             env  |-> [e EXCEPT !.seed = ps.seed,
                                !.packages = Append(@, Len(h) + 1)]]
    IN  spawned(random_cells(e.seed, 2))

Outcome(h, e, raised) == [heap |-> h, env |-> e, raised |-> raised]

\* The legality assertion with park let through unconditionally.
assert_legal_or_park(h, e, robot_index, operator) ==
    operator = "park" \/ InSeq(operator, get_legal_operators(h, e, robot_index))

\* assert operator in self.get_legal_operators(robot_index)
assert_legal(h, e, robot_index, operator) ==
    InSeq(operator, get_legal_operators(h, e, robot_index))

\* assert not self.num_steps < 0
assert_steps(e) == ~(e.num_steps < 0)

\* pick up without self.packages.remove(package).
op_pick_up_keeps_listed(h, e, rid) ==
    LET carry(package) == Outcome([h EXCEPT ![rid].package = package], e, "")
    IN  carry(get_package_in(h, e, h[rid].position))

\* pick up charged one unit of battery, like a move.
op_pick_up_costs_battery(h, e, rid) ==
    LET carry(package) ==
            Outcome([h EXCEPT ![rid].package = package, ![rid].battery = @ - 1],
                    [e EXCEPT !.packages = ListRemove(@, package)], "")
    IN  carry(get_package_in(h, e, h[rid].position))

op_pick_up(h, e, rid) ==
    LET carry(package) ==
            Outcome([h EXCEPT ![rid].package = package],
                    [e EXCEPT !.packages = ListRemove(@, package)], "")
    IN  carry(get_package_in(h, e, h[rid].position))

\* charge without robot.credit = 0.
op_charge_keeps_credit(h, e, rid) ==
    Outcome([h EXCEPT ![rid].battery = @ + h[rid].credit], e, "")

op_charge(h, e, rid) ==
    Outcome([h EXCEPT ![rid].battery = @ + h[rid].credit,
                      ![rid].credit = 0], e, "")

\* The reward without its factor 2.
credit_won_single(package) ==
    manhattan_distance(package.position, package.destination)

credit_won(package) ==
    manhattan_distance(package.position, package.destination) * 2

\* drop off that pays the robot without charging the other one.
op_drop_off_not_charged(h, e, rid, oid) ==
    LET put_on_board(sp) ==
            IF ~sp.heap[sp.env.packages[1]].on_board
            THEN Outcome([sp.heap EXCEPT ![sp.env.packages[1]].on_board = TRUE,
                                         ![rid].package = None], sp.env, "")
            ELSE IF Len(sp.env.packages) < 2
            THEN Outcome(sp.heap, sp.env, "IndexError")
            ELSE Outcome([sp.heap EXCEPT ![sp.env.packages[2]].on_board = TRUE,
                                         ![rid].package = None], sp.env, "")
        pay(won) == put_on_board(spawn_package([h EXCEPT ![rid].credit = @ + won], e))
    IN  pay(credit_won(h[h[rid].package]))

\* The package list is indexed after the spawn; packages[1] of a list of
\* length one raises IndexError before robot.package is cleared.
op_drop_off(h, e, rid, oid) ==
    LET put_on_board(sp) ==
            IF ~sp.heap[sp.env.packages[1]].on_board
            THEN Outcome([sp.heap EXCEPT ![sp.env.packages[1]].on_board = TRUE,
                                         ![rid].package = None], sp.env, "")
            ELSE IF Len(sp.env.packages) < 2
            THEN Outcome(sp.heap, sp.env, "IndexError")
            ELSE Outcome([sp.heap EXCEPT ![sp.env.packages[2]].on_board = TRUE,
                                         ![rid].package = None], sp.env, "")
        pay(won) == put_on_board(spawn_package([h EXCEPT ![rid].credit = @ + won,
                                                         ![oid].credit = @ - won], e))
    IN  pay(credit_won(h[h[rid].package]))

\* apply_operator: the step counter is decremented first, then the two
\* assertions are evaluated, then the operator acts.  `raised' is "" when
\* the call returns and the name of the exception otherwise.
apply_operator(h, e0, robot_index, operator) ==
    LET e   == [e0 EXCEPT !.num_steps = @ - 1]
        rid == e.robots[robot_index + 1]
        oid == e.robots[((robot_index + 1) % 2) + 1]
    IN  IF ~assert_legal(h, e, robot_index, operator)
        THEN Outcome(h, e, "AssertionError")
        ELSE IF ~assert_steps(e)
        THEN Outcome(h, e, "AssertionError")
        ELSE CASE operator = "park" -> Outcome(h, e, "")
          [] operator = "move north" -> Outcome(move_robot(h, e, robot_index, <<0, -1>>), e, "")
          [] operator = "move south" -> Outcome(move_robot(h, e, robot_index, <<0, 1>>), e, "")
          [] operator = "move east"  -> Outcome(move_robot(h, e, robot_index, <<1, 0>>), e, "")
          [] operator = "move west"  -> Outcome(move_robot(h, e, robot_index, <<-1, 0>>), e, "")
          [] operator = "pick up"    -> op_pick_up(h, e, rid)
          [] operator = "charge"     -> op_charge(h, e, rid)
          [] operator = "drop off"   -> op_drop_off(h, e, rid, oid)
          [] OTHER -> Outcome(h, e, "AssertionError")

done(h, e) ==
    \/ Cardinality({i \in 1..Len(e.robots) : h[e.robots[i]].battery > 0}) = 0
    \/ e.num_steps <= 0

get_balances(h, e) == [i \in 1..Len(e.robots) |-> h[e.robots[i]].credit]

\* ------------------------------------------------------------- arithmetic
\* Heuristic values are quotients of small integers; they are kept as exact
\* fractions [n |-> numerator, d |-> denominator] with d > 0 in lowest
\* terms, so that comparisons agree with the floats the program compares.
\* d = 0 marks float('inf') (n = 1) and -float('inf') (n = -1).
RECURSIVE Gcd(_, _)
Gcd(a, b) == IF b = 0 THEN a ELSE Gcd(b, a % b)

Abs(x) == IF x < 0 THEN -x ELSE x

Frac(n, d) ==
    LET lowest(g) == [n |-> n \div g, d |-> d \div g]
    IN  IF n = 0 THEN [n |-> 0, d |-> 1] ELSE lowest(Gcd(Abs(n), d))

Whole(k) == [n |-> k, d |-> 1]

PosInf == [n |-> 1, d |-> 0]

NegInf == [n |-> -1, d |-> 0]

Less(a, b) ==
    IF a.d = 0 /\ b.d = 0 THEN a.n < b.n ELSE a.n * b.d < b.n * a.d

Plus(a, b) ==
    IF a.d = 0 THEN a
    ELSE IF b.d = 0 THEN b
    ELSE Frac(a.n * b.d + b.n * a.d, a.d * b.d)

Times(a, k) == IF a.d = 0 THEN a ELSE Frac(a.n * k, a.d)

Over(a, k) == IF a.d = 0 THEN a ELSE Frac(a.n, a.d * k)

Max(a, b) == IF Less(a, b) THEN b ELSE a

Min(a, b) == IF Less(b, a) THEN b ELSE a

\* float('inf') as a cost: larger than any cost on the board.
InfCost == 1000000

\* -------------------------------------------------------------- heuristic
get_reward(package) ==
    2 * manhattan_distance(package.position, package.destination)

\* `robot.package is package' compares object identities.
get_cost(h, robot, package_id) ==
    IF robot.package = package_id
    THEN manhattan_distance(robot.position, h[package_id].destination) + 1
    ELSE manhattan_distance(robot.position, h[package_id].position)
         + manhattan_distance(h[package_id].position, h[package_id].destination) + 2

RECURSIVE MinOver(_, _, _, _)
MinOver(h, robot, ids, i) ==
    LET least(dist, rest) == IF dist < rest THEN dist ELSE rest
    IN  IF i = Len(ids)
        THEN manhattan_distance(robot.position, h[ids[i]].position)
        ELSE least(manhattan_distance(robot.position, h[ids[i]].position),
                   MinOver(h, robot, ids, i + 1))

get_min_charge_distance(h, robot, e) == MinOver(h, robot, e.charge_stations, 1)

is_package_available(h, robot, package_id, opponent, remaining_moves) ==
    LET affordable(cost) == /\ remaining_moves >= cost
                            /\ robot.battery >= cost
                            /\ opponent.package # package_id
    IN  affordable(get_cost(h, robot, package_id))

\* The update without the `elif value == max_value' branch.
Better_keeps_first(acc, value, cost) ==
    IF Less(acc.max_value, value)
    THEN [max_value |-> value, best_cost |-> cost]
    ELSE acc

\* One round of the value/cost update shared by both loops of
\* get_max_package_value; acc = [max_value, best_cost].
Better(acc, value, cost) ==
    IF Less(acc.max_value, value)
    THEN [max_value |-> value, best_cost |-> cost]
    ELSE IF value = acc.max_value
    THEN [acc EXCEPT !.best_cost = IF cost < @ THEN cost ELSE @]
    ELSE acc

RECURSIVE BoardLoop(_, _, _, _, _, _, _)
BoardLoop(h, robot, opponent, packages, remaining_moves, i, acc) ==
    LET update(id, cost) ==
            IF h[id].on_board
               /\ is_package_available(h, robot, id, opponent, remaining_moves)
            THEN Better(acc, Frac(get_reward(h[id]), cost), cost)
            ELSE acc
    IN  IF i > Len(packages) THEN acc
        ELSE BoardLoop(h, robot, opponent, packages, remaining_moves, i + 1,
                       update(packages[i], get_cost(h, robot, packages[i])))

get_max_package_value(h, robot, opponent, e) ==
    LET remaining_moves == (e.num_steps + 1) \div 2
        carried(acc, cost) ==
            IF remaining_moves >= cost /\ robot.battery >= cost /\ cost > 0
            THEN Better(acc, Frac(get_reward(h[robot.package]), cost), cost)
            ELSE acc
        held(acc) ==
            IF robot.package # None
            THEN carried(acc, get_cost(h, robot, robot.package))
            ELSE acc
    IN  held(BoardLoop(h, robot, opponent, e.packages, remaining_moves, 1,
                       [max_value |-> Whole(0), best_cost |-> InfCost]))

smart_heuristic(h, e, robot_id) ==
    LET robot    == get_robot(h, e, robot_id)
        opponent == get_robot(h, e, (robot_id + 1) % 2)
        credit_diff == robot.credit - opponent.credit
        battery_advantage(r) == r.battery - get_min_charge_distance(h, r, e)
        proximity(best_cost) == IF best_cost < InfCost THEN -best_cost ELSE 0
        carrying_bonus(r) ==
            IF r.package # None
            THEN -manhattan_distance(r.position, h[r.package].destination) ELSE 0
        weighted(me, opp) ==
            Plus(Plus(Times(me.max_value, 10), Times(opp.max_value, -10)),
                 Whole(10 * credit_diff
                     + battery_advantage(robot) - battery_advantage(opponent)
                     + 3 * proximity(me.best_cost) - 1 * proximity(opp.best_cost)
                     + 3 * carrying_bonus(robot) - 1 * carrying_bonus(opponent)))
    IN  weighted(get_max_package_value(h, robot, opponent, e),
                 get_max_package_value(h, opponent, robot, e))

\* ---------------------------------------------------------- search agents
\* A search runs on st = [heap, tick]: the objects allocated so far and the
\* number of clock readings made since run_step started.  The deadline is
\* `limit': the first `limit' readings find time left, every later one finds
\* the time used up (the clock never runs backwards).
MaxTick == 16          \* latest clock reading at which the deadline falls

NoDeadline == 1000000  \* a deadline no search of the model reaches

Start(h) == [heap |-> h, tick |-> 0]

Tick(st) == [st EXCEPT !.tick = @ + 1]

\* (time.time() - self.startTime) >= (self.timeLimit - 0.1), read after Tick
isTimeUp(st, limit) == st.tick > limit

Ret(st, val, op) ==
    [heap |-> st.heap, tick |-> st.tick, val |-> val, op |-> op, raised |-> ""]

Raise(st, exc) ==
    [heap |-> st.heap, tick |-> st.tick, val |-> Whole(0), op |-> "None", raised |-> exc]

StateOf(r) == [heap |-> r.heap, tick |-> r.tick]

\* Agent.successors: the legal operators of the node and, for each of them,
\* a clone of the state with that operator applied.
RECURSIVE successorsLoop(_, _, _, _, _, _)
successorsLoop(h, e, robot_id, operators, i, children) ==
    LET applied(a) ==
            IF a.raised # ""
            THEN [heap |-> a.heap, operators |-> operators, children |-> children,
                  raised |-> a.raised]
            ELSE successorsLoop(a.heap, e, robot_id, operators, i + 1,
                                Append(children, a.env))
        child(c) == applied(apply_operator(c.heap, c.env, robot_id, operators[i]))
    IN  IF i > Len(operators)
        THEN [heap |-> h, operators |-> operators, children |-> children, raised |-> ""]
        ELSE child(clone(h, e))

successors(h, e, robot_id) ==
    successorsLoop(h, e, robot_id, get_legal_operators(h, e, robot_id), 1, <<>>)

\* ---- AgentMinimax
RECURSIVE minimaxSearch(_, _, _, _, _, _, _)
RECURSIVE minimaxLoop(_, _, _, _, _, _, _, _, _, _, _)

minimaxLoop(st, limit, agentId, playerId, depth, isMaximizing, operators, children, i, bestVal, bestOp) ==
    LET better(val) == IF isMaximizing THEN Less(bestVal, val) ELSE Less(val, bestVal)
        compare(r) ==
            IF r.raised # "" THEN r
            ELSE minimaxLoop(StateOf(r), limit, agentId, playerId, depth,
                             isMaximizing, operators, children, i + 1,
                             IF better(r.val) THEN r.val ELSE bestVal,
                             IF better(r.val) THEN operators[i] ELSE bestOp)
        child(st1) ==
            IF isTimeUp(st1, limit) THEN Ret(st1, bestVal, bestOp)
            ELSE compare(minimaxSearch(st1, limit, agentId, children[i],
                                       (playerId + 1) % 2, depth - 1, ~isMaximizing))
    IN  IF i > Len(children) THEN Ret(st, bestVal, bestOp)
        ELSE child(Tick(st))

minimaxSearch(st, limit, agentId, e, playerId, depth, isMaximizing) ==
    LET expand(st1, s) ==
            IF s.raised # "" THEN Raise([st1 EXCEPT !.heap = s.heap], s.raised)
            ELSE minimaxLoop([st1 EXCEPT !.heap = s.heap], limit, agentId, playerId,
                             depth, isMaximizing, s.operators, s.children, 1,
                             IF isMaximizing THEN NegInf ELSE PosInf, "None")
        node(st1) ==
            IF isTimeUp(st1, limit) THEN Ret(st1, Whole(0), "None")
            ELSE IF depth = 0 \/ done(st1.heap, e)
            THEN Ret(st1, smart_heuristic(st1.heap, e, agentId), "None")
            ELSE expand(st1, successors(st1.heap, e, playerId))
    IN  node(Tick(st))

\* ---- AgentExpectimax
RECURSIVE expectimaxSearch(_, _, _, _, _, _, _)
RECURSIVE expectimaxMaxLoop(_, _, _, _, _, _, _, _, _, _)
RECURSIVE expectimaxChanceLoop(_, _, _, _, _, _, _, _, _, _)

expectimaxMaxLoop(st, limit, agentId, playerId, depth, operators, children, i, bestVal, bestOp) ==
    LET compare(r) ==
            IF r.raised # "" THEN r
            ELSE expectimaxMaxLoop(StateOf(r), limit, agentId, playerId, depth,
                                   operators, children, i + 1,
                                   IF Less(bestVal, r.val) THEN r.val ELSE bestVal,
                                   IF Less(bestVal, r.val) THEN operators[i] ELSE bestOp)
        child(st1) ==
            IF isTimeUp(st1, limit) THEN Ret(st1, bestVal, bestOp)
            ELSE compare(expectimaxSearch(st1, limit, agentId, children[i],
                                          (playerId + 1) % 2, depth - 1, FALSE))
    IN  IF i > Len(children) THEN Ret(st, bestVal, bestOp)
        ELSE child(Tick(st))

\* Every move of the opponent taken as equally likely.
Weight_uniform(op) == 1

\* weight = 1.0, and 3.0 for "move west" and "pick up"
Weight(op) == IF op = "move west" \/ op = "pick up" THEN 3 ELSE 1

ChanceValue(st, totalScore, totalWeight) ==
    IF totalWeight = 0 THEN Ret(st, Whole(0), "None")
    ELSE Ret(st, Over(totalScore, totalWeight), "None")

expectimaxChanceLoop(st, limit, agentId, playerId, depth, operators, children, i, totalScore, totalWeight) ==
    LET add(r, weight) ==
            IF r.raised # "" THEN r
            ELSE expectimaxChanceLoop(StateOf(r), limit, agentId, playerId, depth,
                                      operators, children, i + 1,
                                      Plus(totalScore, Times(r.val, weight)),
                                      totalWeight + weight)
        child(st1) ==
            IF isTimeUp(st1, limit) THEN ChanceValue(st1, totalScore, totalWeight)
            ELSE add(expectimaxSearch(st1, limit, agentId, children[i],
                                      (playerId + 1) % 2, depth - 1, TRUE),
                     Weight(operators[i]))
    IN  IF i > Len(children) THEN ChanceValue(st, totalScore, totalWeight)
        ELSE child(Tick(st))

expectimaxSearch(st, limit, agentId, e, playerId, depth, isMaximizing) ==
    LET expand(st2, s) ==
            IF s.raised # "" THEN Raise(st2, s.raised)
            ELSE IF isMaximizing
            THEN expectimaxMaxLoop(st2, limit, agentId, playerId, depth,
                                   s.operators, s.children, 1, NegInf, "None")
            ELSE expectimaxChanceLoop(st2, limit, agentId, playerId, depth,
                                      s.operators, s.children, 1, Whole(0), 0)
        allocate(st1, s) == expand([st1 EXCEPT !.heap = s.heap], s)
        node(st1) ==
            IF isTimeUp(st1, limit) THEN Ret(st1, Whole(0), "None")
            ELSE IF depth = 0 \/ done(st1.heap, e)
            THEN Ret(st1, smart_heuristic(st1.heap, e, agentId), "None")
            ELSE allocate(st1, successors(st1.heap, e, playerId))
    IN  node(Tick(st))

\* ---- AgentAlphaBeta
move_priority(op) ==
    CASE op = "drop off" -> 0 [] op = "pick up" -> 1 [] op = "charge" -> 2
      [] op = "move south" -> 3 [] op = "move east" -> 4 [] op = "move west" -> 5
      [] op = "move north" -> 6 [] op = "park" -> 7 [] OTHER -> 8

\* list.sort(key = move_priority): a stable sort, here by insertion.
RECURSIVE InsertByPriority(_, _)
InsertByPriority(sorted, op) ==
    IF sorted = <<>> THEN <<op>>
    ELSE IF move_priority(op) < move_priority(Head(sorted))
    THEN <<op>> \o sorted
    ELSE <<Head(sorted)>> \o InsertByPriority(Tail(sorted), op)

RECURSIVE SortByPriority(_)
SortByPriority(ops) ==
    IF ops = <<>> THEN <<>>
    ELSE InsertByPriority(SortByPriority(SubSeq(ops, 1, Len(ops) - 1)), ops[Len(ops)])

\* The comparison of the cutoff written the other way round.
Cutoff_flipped(curAlpha, curBeta) == ~Less(curBeta, curAlpha)

\* if curAlpha >= curBeta: break (and if curBeta <= curAlpha: break)
Cutoff(curAlpha, curBeta) == ~Less(curAlpha, curBeta)

RECURSIVE alphaBetaSearch(_, _, _, _, _, _, _, _, _)
RECURSIVE alphaBetaLoop(_, _, _, _, _, _, _, _, _, _, _, _, _)

alphaBetaLoop(st, limit, agentId, e, playerId, depth, isMaximizing, curAlpha, curBeta, operators, i, bestVal, bestOp) ==
    LET prune(st1, val, op, alpha, beta) ==
            IF Cutoff(alpha, beta) THEN Ret(st1, val, op)
            ELSE alphaBetaLoop(st1, limit, agentId, e, playerId, depth,
                               isMaximizing, alpha, beta, operators, i + 1, val, op)
        window(st1, val, op) ==
            prune(st1, val, op,
                  IF isMaximizing THEN Max(curAlpha, val) ELSE curAlpha,
                  IF isMaximizing THEN curBeta ELSE Min(curBeta, val))
        better(val) == IF isMaximizing THEN Less(bestVal, val) ELSE Less(val, bestVal)
        compare(r) ==
            IF r.raised # "" THEN r
            ELSE window(StateOf(r),
                        IF better(r.val) THEN r.val ELSE bestVal,
                        IF better(r.val) THEN operators[i] ELSE bestOp)
        descend(a) ==
            IF a.raised # "" THEN Raise([st EXCEPT !.heap = a.heap], a.raised)
            ELSE compare(alphaBetaSearch([st EXCEPT !.heap = a.heap], limit, agentId,
                                         a.env, (playerId + 1) % 2, depth - 1,
                                         ~isMaximizing, curAlpha, curBeta))
        child(c) == descend(apply_operator(c.heap, c.env, playerId, operators[i]))
    IN  IF i > Len(operators) THEN Ret(st, bestVal, bestOp)
        ELSE child(clone(st.heap, e))

alphaBetaSearch(st, limit, agentId, e, playerId, depth, isMaximizing, curAlpha, curBeta) ==
    LET node(st1) ==
            IF isTimeUp(st1, limit) THEN Raise(st1, "SearchTimeout")
            ELSE IF depth = 0 \/ done(st1.heap, e)
            THEN Ret(st1, smart_heuristic(st1.heap, e, agentId), "None")
            ELSE alphaBetaLoop(st1, limit, agentId, e, playerId, depth, isMaximizing,
                               curAlpha, curBeta,
                               SortByPriority(get_legal_operators(st1.heap, e, playerId)),
                               1, IF isMaximizing THEN NegInf ELSE PosInf, "None")
    IN  node(Tick(st))

\* ---- run_step: the iterative-deepening drivers
\* completed counts the depths whose move was adopted as bestMove.
\* at tells where run_step left its loop: "no operators", "loop" (the check
\* at the head of the loop) or "search" (during or right after a search).
Returned(st, ret, completed, at) ==
    [heap |-> st.heap, tick |-> st.tick, ret |-> ret, raised |-> "",
     completed |-> completed, at |-> at]

Failed(st, exc) ==
    [heap |-> st.heap, tick |-> st.tick, ret |-> "None", raised |-> exc,
     completed |-> 0, at |-> "search"]

\* The check after the search left out.
ResultAlwaysTrusted(st, limit) == TRUE

\* `if self._isTimeUp(): break' after the search: a search during which the
\* deadline passed is not trusted.
ResultTrusted(st, limit) == ~isTimeUp(st, limit)

RECURSIVE AgentMinimax_deepen(_, _, _, _, _, _, _)
AgentMinimax_deepen(st, limit, e, agent_id, currentDepth, bestMove, completed) ==
    LET adopt(st2, r) ==
            IF ~ResultTrusted(st2, limit)
            THEN Returned(st2, bestMove, completed, "search")
            ELSE AgentMinimax_deepen(st2, limit, e, agent_id, currentDepth + 1,
                                     r.op, completed + 1)
        searched(r) ==
            IF r.raised # "" THEN Failed(StateOf(r), r.raised)
            ELSE adopt(Tick(StateOf(r)), r)
        iteration(st1) ==
            IF isTimeUp(st1, limit) THEN Returned(st1, bestMove, completed, "loop")
            ELSE searched(minimaxSearch(st1, limit, agent_id, e, agent_id,
                                        currentDepth, TRUE))
    IN  iteration(Tick(st))

AgentMinimax_run_step(h, e, agent_id, limit) ==
    LET deepen(s) ==
            IF s.raised # "" THEN Failed(Start(s.heap), s.raised)
            ELSE IF s.operators = <<>>
            THEN Returned(Start(s.heap), "park", 0, "no operators")
            ELSE AgentMinimax_deepen(Start(s.heap), limit, e, agent_id, 1,
                                     s.operators[1], 0)
    IN  deepen(successors(h, e, agent_id))

RECURSIVE AgentExpectimax_deepen(_, _, _, _, _, _, _)
AgentExpectimax_deepen(st, limit, e, agent_id, currentDepth, bestMove, completed) ==
    LET adopt(st2, r) ==
            IF ~ResultTrusted(st2, limit)
            THEN Returned(st2, bestMove, completed, "search")
            ELSE AgentExpectimax_deepen(st2, limit, e, agent_id, currentDepth + 1,
                                        r.op, completed + 1)
        searched(r) ==
            IF r.raised # "" THEN Failed(StateOf(r), r.raised)
            ELSE adopt(Tick(StateOf(r)), r)
        iteration(st1) ==
            IF isTimeUp(st1, limit) THEN Returned(st1, bestMove, completed, "loop")
            ELSE searched(expectimaxSearch(st1, limit, agent_id, e, agent_id,
                                           currentDepth, TRUE))
    IN  iteration(Tick(st))

AgentExpectimax_run_step(h, e, agent_id, limit) ==
    LET deepen(s) ==
            IF s.raised # "" THEN Failed(Start(s.heap), s.raised)
            ELSE IF s.operators = <<>>
            THEN Returned(Start(s.heap), "park", 0, "no operators")
            ELSE AgentExpectimax_deepen(Start(s.heap), limit, e, agent_id, 1,
                                        s.operators[1], 0)
    IN  deepen(successors(h, e, agent_id))

\* SearchTimeout, raised by _checkTime in the loop or anywhere in the
\* search, is caught around the loop; any other exception leaves run_step.
RECURSIVE AgentAlphaBeta_deepen(_, _, _, _, _, _, _)
AgentAlphaBeta_deepen(st, limit, e, agent_id, currentDepth, bestMove, completed) ==
    LET searched(r) ==
            IF r.raised = "SearchTimeout"
            THEN Returned(StateOf(r), bestMove, completed, "search")
            ELSE IF r.raised # "" THEN Failed(StateOf(r), r.raised)
            ELSE AgentAlphaBeta_deepen(StateOf(r), limit, e, agent_id,
                                       currentDepth + 1, r.op, completed + 1)
        iteration(st1) ==
            IF isTimeUp(st1, limit) THEN Returned(st1, bestMove, completed, "loop")
            ELSE searched(alphaBetaSearch(st1, limit, agent_id, e, agent_id,
                                          currentDepth, TRUE, NegInf, PosInf))
    IN  iteration(Tick(st))

AgentAlphaBeta_run_step(h, e, agent_id, limit) ==
    LET deepen(operators) ==
            IF operators = <<>> THEN Returned(Start(h), "park", 0, "no operators")
            ELSE AgentAlphaBeta_deepen(Start(h), limit, e, agent_id, 1, operators[1], 0)
    IN  deepen(get_legal_operators(h, e, agent_id))

SearchAgents == {"minimax", "alphabeta", "expectimax"}

\* create_agent(agent_name).run_step(env, agent_id, time_limit)
run_step(agent_name, h, e, agent_id, limit) ==
    CASE agent_name = "minimax"    -> AgentMinimax_run_step(h, e, agent_id, limit)
      [] agent_name = "alphabeta"  -> AgentAlphaBeta_run_step(h, e, agent_id, limit)
      [] agent_name = "expectimax" -> AgentExpectimax_run_step(h, e, agent_id, limit)

\* A search of depth d from the root without a deadline, as the drivers start
\* it, and the clock readings it makes.
Uninterrupted(agent, h, e, r, d) ==
    CASE agent = "minimax" -> minimaxSearch(Start(h), NoDeadline, r, e, r, d, TRUE)
      [] agent = "expectimax" -> expectimaxSearch(Start(h), NoDeadline, r, e, r, d, TRUE)
      [] agent = "alphabeta" ->
            alphaBetaSearch(Start(h), NoDeadline, r, e, r, d, TRUE, NegInf, PosInf)

\* ---- execute_agent_step
StepResult(operator, timed_out, error) ==
    [operator |-> operator, timed_out |-> timed_out, error |-> error]

\* What becomes of the child process: it puts a result on the queue and
\* exits, is still alive at time_limit + GRACE_PERIOD, or exits without a result.
Fates == {"finished", "alive", "no result"}

\* The result a child left on the queue read after the hard timeout too.
execute_agent_step_reads_late(agent_name, h, e, agent_id, limit, fate) ==
    LET result(child) ==
            CASE fate = "no result" -> StepResult("None", FALSE, "no result")
              [] child.raised # "" -> StepResult("None", fate = "alive", child.raised)
              [] OTHER -> StepResult(child.ret, fate = "alive", "")
        subprocess(env_clone) ==
            [heap   |-> SubSeq(env_clone.heap, 1, Len(h)),
             result |-> result(run_step(agent_name, env_clone.heap, env_clone.env,
                                        agent_id, limit))]
    IN  subprocess(clone(h, e))

\* The child works on its own copy of the parent's memory: what it
\* allocates and writes never reaches the parent's heap.  env_clone is
\* local: its objects are released when the call returns.
execute_agent_step(agent_name, h, e, agent_id, limit, fate) ==
    LET result(child) ==
            CASE fate = "alive" -> StepResult("None", TRUE, "")
              [] fate = "no result" -> StepResult("None", FALSE, "no result")
              [] child.raised # "" -> StepResult("None", FALSE, child.raised)
              [] OTHER -> StepResult(child.ret, FALSE, "")
        subprocess(env_clone) ==
            [heap   |-> SubSeq(env_clone.heap, 1, Len(h)),
             result |-> result(run_step(agent_name, env_clone.heap, env_clone.env,
                                        agent_id, limit))]
    IN  subprocess(clone(h, e))

\* The results of the consecutive random_cells calls of generate, one per
\* entry of counts, each call starting from the seed the one before left.
RECURSIVE random_draws(_, _)
random_draws(seed, counts) ==
    IF counts = <<>> THEN <<>>
    ELSE LET then(d) == <<d>> \o random_draws(d.seed, Tail(counts))
         IN  then(random_cells(seed, Head(counts)))

generate(seed, num_steps) ==
    LET pk(p, d, flag) == [Package(p.cells[1], d.cells[1]) EXCEPT !.on_board = flag]
        placed(d) ==
            [heap |-> << Robot(d[1].cells[1], 20, 0), Robot(d[1].cells[2], 20, 0),
                         pk(d[2], d[3], TRUE), pk(d[4], d[5], TRUE),
                         pk(d[6], d[7], FALSE), pk(d[8], d[9], FALSE),
                         ChargeStation(d[10].cells[1]), ChargeStation(d[10].cells[2]) >>,
             env  |-> [num_steps |-> num_steps, seed |-> d[10].seed,
                       robots |-> <<1, 2>>, packages |-> <<3, 4, 5, 6>>,
                       charge_stations |-> <<7, 8>>]]
    IN  placed(random_draws(seed, <<2, 1, 1, 1, 1, 1, 1, 1, 1, 2>>))

\* load_from_map_data: `seed' stands for the value random.randint(0, 255)
\* returns there; every package of the map is put on board.
load_from_map_data(data, num_steps, seed) ==
    LET nr == Len(data.robots)
        np == Len(data.packages)
        nc == Len(data.charge_stations)
        rs == [i \in 1..nr |-> Robot(data.robots[i].position, data.robots[i].battery,
                                     data.robots[i].credit)]
        ps == [i \in 1..np |-> [Package(data.packages[i].position,
                                        data.packages[i].destination)
                                EXCEPT !.on_board = TRUE]]
        cs == [i \in 1..nc |-> ChargeStation(data.charge_stations[i].position)]
    IN  [heap |-> rs \o ps \o cs,
         env  |-> [num_steps |-> num_steps, seed |-> seed,
                   robots |-> [i \in 1..nr |-> i],
                   packages |-> [i \in 1..np |-> nr + i],
                   charge_stations |-> [i \in 1..nc |-> nr + np + i]]]

\* ------------------------------------------------------------ map inputs
MapRobot(x, y, battery, credit) ==
    [position |-> <<x, y>>, battery |-> battery, credit |-> credit]

MapPackage(px, py, dx, dy) == [position |-> <<px, py>>, destination |-> <<dx, dy>>]

MapStation(x, y) == [position |-> <<x, y>>]

\* Robot 0 one cell north of a package whose destination is one cell further.
ScenarioMap ==
    [robots |-> <<MapRobot(0, 0, 5, 0), MapRobot(4, 4, 1, 0)>>,
     packages |-> <<MapPackage(0, 1, 0, 2), MapPackage(3, 3, 3, 0)>>,
     charge_stations |-> <<MapStation(0, 4), MapStation(4, 0)>>]

\* Both robots stand on a package; deliveries end on or next to a station.
DeliveryMap ==
    [robots |-> <<MapRobot(1, 1, 2, 0), MapRobot(2, 1, 1, 3)>>,
     packages |-> <<MapPackage(1, 1, 1, 2), MapPackage(2, 1, 2, 2)>>,
     charge_stations |-> <<MapStation(1, 2), MapStation(2, 1)>>]

\* Robot 1 is stranded and robot 0 has a single move left.
StrandedMap ==
    [robots |-> <<MapRobot(0, 0, 1, 0), MapRobot(0, 1, 0, 0)>>,
     packages |-> <<MapPackage(1, 0, 1, 1), MapPackage(0, 1, 0, 1)>>,
     charge_stations |-> <<MapStation(4, 4), MapStation(0, 1)>>]

\* Robot 0 stands on a charge station with credit 5 and battery 3.
ChargeMap ==
    [robots |-> <<MapRobot(2, 2, 3, 5), MapRobot(4, 4, 0, 0)>>,
     packages |-> <<MapPackage(0, 1, 0, 2), MapPackage(3, 3, 3, 0)>>,
     charge_stations |-> <<MapStation(2, 2), MapStation(4, 0)>>]

Maps == {ScenarioMap, DeliveryMap, StrandedMap}

\* Seeds handed to generate(): 47 and 253 put a robot on a package.
GenerateSeeds == {0, 47, 253}

\* Values of random.randint(0, 255) tried in load_from_map_data.
LoadSeeds == {0, 1}

EnvInits(num_steps) ==
    {generate(s, num_steps) : s \in GenerateSeeds}
    \cup {load_from_map_data(m, num_steps, s) : m \in Maps, s \in LoadSeeds}

\* ------------------------------------------------------------------ calls
NoEnv == [num_steps |-> 0, seed |-> 0, robots |-> <<>>, packages |-> <<>>,
          charge_stations |-> <<>>]

Vocabulary == {"move north", "move south", "move east", "move west",
               "pick up", "drop off", "charge", "park"}

\* What a caller may hand to apply_operator: "None" stands for Python's None.
Operators == Vocabulary \cup {"fly", "None"}

Call(fn, robot, op, raised) ==
    [fn |-> fn, robot |-> robot, op |-> op, raised |-> raised]

NoCall == Call("", 0, "", "")

Idle == [pc |-> "idle"]

\* env.apply_operator(r, op), by whoever owns the live environment.
ApplyOperator(r, op) ==
    /\ cl = NoEnv
    /\ last.raised = ""
    /\ search = Idle /\ sim = Idle /\ gui = Idle
    /\ \E res \in {apply_operator(heap, env, r, op)} :
           /\ heap' = res.heap
           /\ env' = res.env
           /\ last' = Call("apply_operator", r, op, res.raised)
    /\ UNCHANGED <<cl, search, sim, gui>>

\* cl = env.clone()
Clone ==
    /\ cl = NoEnv
    /\ last.raised = ""
    /\ search = Idle /\ sim = Idle /\ gui = Idle
    /\ \E res \in {clone(heap, env)} :
           /\ heap' = res.heap
           /\ cl' = res.env
    /\ last' = Call("clone", 0, "", "")
    /\ UNCHANGED <<env, search, sim, gui>>

\* cl.apply_operator(r, op) with op taken from cl.get_legal_operators(r)
ApplyOnClone(r, op) ==
    /\ cl # NoEnv
    /\ last.raised = ""
    /\ cl.num_steps > 0
    /\ InSeq(op, get_legal_operators(heap, cl, r))
    /\ \E res \in {apply_operator(heap, cl, r, op)} :
           /\ heap' = res.heap
           /\ cl' = res.env
           /\ last' = Call("clone.apply_operator", r, op, res.raised)
    /\ UNCHANGED <<env, search, sim, gui>>

Init ==
    /\ \E i \in EnvInits(NumSteps) \cup {load_from_map_data(ChargeMap, NumSteps, 0)} :
           heap = i.heap /\ env = i.env
    /\ cl = NoEnv
    /\ last = NoCall
    /\ search = Idle /\ sim = Idle /\ gui = Idle

Next ==
    \/ \E r \in {0, 1}, op \in Operators : ApplyOperator(r, op)
    \/ Clone
    \/ \E r \in {0, 1}, op \in Vocabulary : ApplyOnClone(r, op)

Spec == Init /\ [][Next]_vars

\* ---------------------------------------------------------- SpecGenerate
\* The games that start from generate(): seed 37 puts robot 0 on two
\* packages at once, one on board and one queued.
GeneratedSeeds == GenerateSeeds \cup {37}

InitGenerate ==
    /\ \E s \in GeneratedSeeds : heap = generate(s, NumSteps).heap
                                 /\ env = generate(s, NumSteps).env
    /\ cl = NoEnv
    /\ last = NoCall
    /\ search = Idle /\ sim = Idle /\ gui = Idle

SpecGenerate == InitGenerate /\ [][Next]_vars

\* ---------------------------------------------------------- SpecSearch
SearchSteps == 2       \* num_steps of the games the agents are consulted in

MaxPlays == 1          \* moves of the game played before an agent is consulted

MaxDepth == 2          \* deepest fixed depth a search is started with

SearchCall(fn, agent, robot, limit, out) ==
    [pc |-> "returned", fn |-> fn, agent |-> agent, robot |-> robot,
     limit |-> limit, out |-> out]

\* A move of the game played before an agent is consulted.
PlayMove(r, op) ==
    /\ search = Idle
    /\ InSeq(op, get_legal_operators(heap, env, r))
    /\ env.num_steps > 0
    /\ SearchSteps - env.num_steps < MaxPlays
    /\ \E res \in {apply_operator(heap, env, r, op)} :
           /\ heap' = res.heap
           /\ env' = res.env
           /\ last' = Call("apply_operator", r, op, res.raised)
    /\ UNCHANGED <<cl, search, sim, gui>>

\* agent.run_step(env, r, time_limit) on the live environment, as main.py
\* calls it; the deadline falls after `limit' clock readings.
RunStep(agent, r, limit) ==
    /\ search = Idle
    /\ \E res \in {run_step(agent, heap, env, r, limit)} :
           /\ heap' = res.heap
           /\ search' = SearchCall("run_step", agent, r, limit,
                                   [ret |-> res.ret, raised |-> res.raised,
                                    completed |-> res.completed, at |-> res.at])
    /\ UNCHANGED <<env, cl, last, sim, gui>>

\* The root call the drivers make for one depth, self.startTime just set and
\* the deadline out of reach: minimaxSearch(env, r, depth, True) and its like.
Search(agent, r, depth) ==
    /\ search = Idle
    /\ \E res \in {Uninterrupted(agent, heap, env, r, depth)} :
           /\ heap' = res.heap
           /\ search' = SearchCall("search", agent, r, NoDeadline,
                                   [ret |-> res.op, raised |-> res.raised,
                                    val |-> res.val, depth |-> depth])
    /\ UNCHANGED <<env, cl, last, sim, gui>>

\* execute_agent_step(agent, env, r, time_limit)
ExecuteAgentStep(agent, r, limit, fate) ==
    /\ search = Idle
    /\ \E res \in {execute_agent_step(agent, heap, env, r, limit, fate)} :
           /\ heap' = res.heap
           /\ search' = SearchCall("execute_agent_step", agent, r, limit, res.result)
    /\ UNCHANGED <<env, cl, last, sim, gui>>

InitSearch ==
    /\ \E i \in EnvInits(SearchSteps) : heap = i.heap /\ env = i.env
    /\ cl = NoEnv
    /\ last = NoCall
    /\ search = Idle /\ sim = Idle /\ gui = Idle

NextSearch ==
    \/ \E r \in {0, 1}, op \in Vocabulary : PlayMove(r, op)
    \/ \E a \in SearchAgents, r \in {0, 1}, limit \in 0..MaxTick : RunStep(a, r, limit)
    \/ \E a \in SearchAgents, r \in {0, 1}, limit \in 0..MaxTick, f \in Fates :
          ExecuteAgentStep(a, r, limit, f)
    \/ \E a \in SearchAgents, r \in {0, 1}, depth \in 1..MaxDepth : Search(a, r, depth)

SpecSearch == InitSearch /\ [][NextSearch]_vars

\* ------------------------------------------------------------ observation
\* What a caller can read from an environment: every field of every object
\* reachable from it, with references replaced by the objects they name.
PackageView(h, id) ==
    <<h[id].position, h[id].destination, h[id].on_board>>

RobotView(h, id) ==
    [position |-> h[id].position, battery |-> h[id].battery,
     credit |-> h[id].credit,
     package |-> IF h[id].package = None THEN <<>> ELSE PackageView(h, h[id].package)]

ObjectsView(h, e) ==
    [robots   |-> [i \in 1..Len(e.robots) |-> RobotView(h, e.robots[i])],
     packages |-> [i \in 1..Len(e.packages) |-> PackageView(h, e.packages[i])]]

View(h, e) ==
    [objects |-> ObjectsView(h, e),
     charge_stations |-> [i \in 1..Len(e.charge_stations) |-> h[e.charge_stations[i]].position],
     num_steps |-> e.num_steps,
     seed |-> e.seed]

\* The environment an apply_operator call recorded in `last' acted on.
Target(fn, e, c) == IF fn = "apply_operator" THEN e ELSE c

IsApply(fn) == fn \in {"apply_operator", "clone.apply_operator"}

MoveNames == {"move north", "move south", "move east", "move west"}

\* ------------------------------------------------------------------ C1
\* C1: whatever the state, the robot and the moment of the deadline,
\* run_step of a search agent returns one of the 8 operators, and one that
\* is legal for the robot in the state run_step was called on.
ReturnsLegalOperator ==
    [][(search'.pc = "returned" /\ search'.fn = "run_step")
       => (/\ search'.out.raised = ""
           /\ search'.out.ret \in Vocabulary
           /\ InSeq(search'.out.ret, get_legal_operators(heap, env, search'.robot)))]_vars

\* ------------------------------------------------------------------ C2
\* The move of the deepest depth d, d+1, ... that fits the deadline: depth d
\* fits when the loop's check, every check of its search and (minimax and
\* expectimax) the check after the search all come before the deadline.
RECURSIVE DeepestCompleted(_, _, _, _, _, _, _, _)
DeepestCompleted(agent, h, e, r, limit, d, used, move) ==
    LET fits(upTo, op) ==
            IF upTo <= limit
            THEN DeepestCompleted(agent, h, e, r, limit, d + 1, upTo, op)
            ELSE move
        depth(s) == fits(used + 1 + s.tick + (IF agent = "alphabeta" THEN 0 ELSE 1), s.op)
    IN  depth(Uninterrupted(agent, h, e, r, d))

\* C2: the move run_step returns is the move of the deepest depth whose
\* search was completed before the deadline was observed, and the first
\* legal operator if no depth was completed.
DeepestCompletedDepthWins ==
    [][(search'.pc = "returned" /\ search'.fn = "run_step" /\ search'.out.raised = "")
       => search'.out.ret =
             DeepestCompleted(search'.agent, heap, env, search'.robot, search'.limit, 1, 0,
                              get_legal_operators(heap, env, search'.robot)[1])]_vars

\* The deadline fell during a search although an earlier depth had been
\* completed, whose move, not the fallback, was returned.
InterruptedAfterCompletedDepth ==
    /\ search.pc = "returned" /\ search.fn = "run_step"
    /\ search.out.raised = "" /\ search.out.at = "search"
    /\ search.out.completed >= 1
    /\ search.out.ret \in Vocabulary
    /\ search.out.ret # get_legal_operators(heap, env, search.robot)[1]

\* ------------------------------------------------------------------ C3
\* C3: run_step and execute_agent_step leave every observable field of the
\* environment they are given as it was, however the call ends.
SearchLeavesEnvUnchanged ==
    [][search'.pc = "returned" => View(heap', env') = View(heap, env)]_vars

\* A completed search delivered, on clones, the package env's robot carries.
SearchedWhileCarrying ==
    /\ search.pc = "returned" /\ search.fn = "run_step"
    /\ search.out.completed >= 1
    /\ get_robot(heap, env, search.robot).package # None
    /\ InSeq("drop off", get_legal_operators(heap, env, search.robot))

\* ------------------------------------------------------------------ C4
\* C4: whatever legal operators are applied to env.clone(), and the clone()
\* call itself, leave every observable field of env as it was.
CloneIndependence ==
    [][cl' # NoEnv => View(heap', env') = View(heap, env)]_vars

\* The clone delivered a package that env's robot still carries.
CloneDeliveredCarried ==
    /\ last.fn = "clone.apply_operator" /\ last.op = "drop off" /\ last.raised = ""
    /\ get_robot(heap, env, last.robot).package # None
    /\ get_robot(heap, cl, last.robot).package = None

\* ------------------------------------------------------------------ C5
\* C5: apply_operator with an operator outside the robot's legal set raises
\* AssertionError and leaves every robot and package as it was.
IllegalOperatorFails ==
    [][(/\ last'.fn = "apply_operator"
        /\ ~InSeq(last'.op, get_legal_operators(heap, env, last'.robot)))
       => (/\ last'.raised = "AssertionError"
           /\ ObjectsView(heap', env') = ObjectsView(heap, env))]_vars

\* A vocabulary operator was refused although steps remained.
IllegalRejected ==
    /\ last.fn = "apply_operator" /\ last.raised = "AssertionError"
    /\ last.op \in Vocabulary
    /\ env.num_steps >= 0

\* ------------------------------------------------------------------ C6
\* C6: a drop off moves exactly 2 x manhattan(position, destination) of the
\* delivered package from the other robot's credit to the delivering robot's.
ZeroSumDelivery ==
    [][(IsApply(last'.fn) /\ last'.op = "drop off" /\ last'.raised = "")
       => LET e0 == Target(last'.fn, env, cl)
              e1 == Target(last'.fn, env', cl')
              r  == last'.robot
              o  == (r + 1) % 2
              pk == heap[get_robot(heap, e0, r).package]
              amount == 2 * manhattan_distance(pk.position, pk.destination)
          IN  /\ get_robot(heap', e1, r).credit = get_robot(heap, e0, r).credit + amount
              /\ get_robot(heap', e1, o).credit = get_robot(heap, e0, o).credit - amount
              /\ get_balances(heap', e1)[1] + get_balances(heap', e1)[2]
                   = get_balances(heap, e0)[1] + get_balances(heap, e0)[2]]_vars

\* A delivery on the live environment that paid a positive reward.
DeliveredForCredit ==
    /\ last.fn = "apply_operator" /\ last.op = "drop off" /\ last.raised = ""
    /\ get_robot(heap, env, last.robot).credit > 0
    /\ get_robot(heap, env, (last.robot + 1) % 2).credit < 0

\* ------------------------------------------------------------------ C7
\* C7: a movement costs the moving robot exactly one unit of battery, charge
\* never lowers the battery, and no robot's battery is ever negative.
BatteryMonotonic ==
    /\ [](\A e \in {env, cl} : \A i \in 1..Len(e.robots) : heap[e.robots[i]].battery >= 0)
    /\ [][(IsApply(last'.fn) /\ last'.raised = "")
          => LET e0 == Target(last'.fn, env, cl)
                 e1 == Target(last'.fn, env', cl')
                 b0 == get_robot(heap, e0, last'.robot).battery
                 b1 == get_robot(heap', e1, last'.robot).battery
             IN  /\ last'.op \in MoveNames => b1 = b0 - 1
                 /\ last'.op = "charge" => b1 >= b0]_vars

\* A robot spent its last unit of battery on a move.
MovedToEmptyBattery ==
    /\ last.fn = "apply_operator" /\ last.op \in MoveNames /\ last.raised = ""
    /\ get_robot(heap, env, last.robot).battery = 0

\* ------------------------------------------------------------------ C8
\* C8: a successful apply_operator lowers num_steps by exactly 1, nothing
\* else changes num_steps, and num_steps is never negative.
RemainingStepsContract ==
    /\ [](env.num_steps >= 0 /\ cl.num_steps >= 0)
    /\ [][LET ok == IsApply(last'.fn) /\ last'.raised = ""
              e0 == Target(last'.fn, env, cl)
              e1 == Target(last'.fn, env', cl')
          IN  /\ ok => e1.num_steps = e0.num_steps - 1
              /\ ~ok => (last'.fn = "clone" \/ e1.num_steps = e0.num_steps)]_vars

\* ------------------------------------------------------------- SpecGame
CountSteps == 2        \* count_steps: rounds of a game, num_steps is twice that

MaxThreads == 1        \* AgentWorker threads alive at the same time

MaxRound == 2          \* last current_round in which the screen starts a computation

\* Clock readings after which the deadline of a turn falls.
GameLimits == {0, 5, MaxTick}

\* The agents of robot 0 and robot 1.
AgentPairs == {<<"alphabeta", "minimax">>, <<"expectimax", "alphabeta">>}

\* The environments the games are played in.
GameEnvs(num_steps) ==
    {generate(47, num_steps),
     load_from_map_data(StrandedMap, num_steps, 0),
     load_from_map_data(DeliveryMap, num_steps, 1)}

\* What the games shown on the screen are played with.
ScreenLimits == {MaxTick}

ScreenAgentPairs == {<<"alphabeta", "minimax">>}

NoWinner == 0 - 1

NoStep == StepResult("None", FALSE, "")

determine_winner(balances) ==
    IF balances[1] > balances[2] THEN 0
    ELSE IF balances[2] > balances[1] THEN 1
    ELSE NoWinner

\* ---- GameSimulator
\* The credits compared whether or not the game ended by an error.
GameResult_scores_errors(h, e, s, error_phase) ==
    [winner        |-> determine_winner(get_balances(h, e)),
     final_credits |-> get_balances(h, e),
     steps_taken   |-> s.steps_taken,
     timeout_flags |-> s.timeout_flags,
     error_phase   |-> error_phase]

GameResult(h, e, s, error_phase) ==
    [winner        |-> IF error_phase # "" THEN NoWinner
                       ELSE determine_winner(get_balances(h, e)),
     final_credits |-> get_balances(h, e),
     steps_taken   |-> s.steps_taken,
     timeout_flags |-> s.timeout_flags,
     error_phase   |-> error_phase]

\* run() leaves its loops and builds the GameResult.
GameSimulator_return(h, e, s, error_phase) ==
    [s EXCEPT !.pc = IF error_phase = "" THEN "finished" ELSE "error",
              !.result = GameResult(h, e, s, error_phase)]

\* The outer loop going round without counting its rounds.
GameSimulator_next_uncounted(h, e, s) ==
    IF s.agent_index = 0 THEN [s EXCEPT !.agent_index = 1]
    ELSE IF done(h, e)
         THEN GameSimulator_return(h, e, s, "")
         ELSE [s EXCEPT !.agent_index = 0]

\* The end of one pass through the body of the inner loop: the next agent
\* of the round, or, after the second agent, `if self.env.done(): break'
\* and the next round.
GameSimulator_next(h, e, s) ==
    IF s.agent_index = 0 THEN [s EXCEPT !.agent_index = 1]
    ELSE IF done(h, e) \/ s.round_num + 1 >= CountSteps
         THEN GameSimulator_return(h, e, s, "")
         ELSE [s EXCEPT !.agent_index = 0, !.round_num = @ + 1]

\* The timed-out move applied all the same, as a park.
GameSimulator_timed_out_parks(h, e, s, step) ==
    LET parked(ap) ==
            [heap |-> ap.heap, env |-> ap.env,
             sim  |-> GameSimulator_next(ap.heap, ap.env,
                          [s EXCEPT !.step = step,
                                    !.timeout_flags[s.agent_index + 1] = TRUE,
                                    !.steps_taken = @ + 1])]
    IN  parked(apply_operator(h, e, s.agent_index, "park"))

\* `if step.timed_out:' ... `continue'
GameSimulator_timed_out(h, e, s, step) ==
    [heap |-> h, env |-> e,
     sim  |-> GameSimulator_next(h, e,
                  [s EXCEPT !.step = step,
                            !.timeout_flags[s.agent_index + 1] = TRUE,
                            !.steps_taken = @ + 1])]

\* One pass through the body of the inner loop of run().
GameSimulator_turn(h, e, s, limit, fate) ==
    LET applied(ap, step) ==
            IF ap.raised # ""
            THEN [heap |-> ap.heap, env |-> ap.env,
                  sim  |-> GameSimulator_return(ap.heap, ap.env,
                               [s EXCEPT !.step = step], "apply_operator")]
            ELSE [heap |-> ap.heap, env |-> ap.env,
                  sim  |-> GameSimulator_next(ap.heap, ap.env,
                               [s EXCEPT !.step = step, !.steps_taken = @ + 1])]
        stepped(h1, step) ==
            IF step.error # ""
            THEN [heap |-> h1, env |-> e,
                  sim  |-> GameSimulator_return(h1, e, [s EXCEPT !.step = step],
                                                "agent_step")]
            ELSE IF step.timed_out
            THEN GameSimulator_timed_out(h1, e, s, step)
            ELSE applied(apply_operator(h1, e, s.agent_index, step.operator), step)
        executed(ex) == stepped(ex.heap, ex.result)
    IN  executed(execute_agent_step(s.agent_names[s.agent_index + 1], h, e,
                                    s.agent_index, limit, fate))

\* GameSimulator(agent_names, ...).run() up to its first turn.
SimRun(agent_names) ==
    /\ sim = Idle /\ gui = Idle
    /\ sim' = [pc |-> "turn", agent_names |-> agent_names, round_num |-> 0,
               agent_index |-> 0, steps_taken |-> 0,
               timeout_flags |-> <<FALSE, FALSE>>, step |-> NoStep,
               result |-> GameResult(heap, env, [steps_taken |-> 0,
                                     timeout_flags |-> <<FALSE, FALSE>>], "")]
    /\ UNCHANGED <<heap, env, cl, last, search, gui>>

SimTurn(limit, fate) ==
    /\ sim.pc = "turn"
    /\ \E res \in {GameSimulator_turn(heap, env, sim, limit, fate)} :
           /\ heap' = res.heap
           /\ env' = res.env
           /\ sim' = res.sim
    /\ UNCHANGED <<cl, last, search, gui>>

\* ---- GameScreen
Buttons == {"run", "step_move", "step_round", "pause", "new_game"}

_update_button_states(g) ==
    LET can_act == g.game_state \in {"READY", "WAITING_FOR_INPUT"}
    IN  [g EXCEPT !.enabled =
            (IF can_act THEN {"run", "step_move", "step_round"} ELSE {})
            \cup (IF g.auto_run /\ g.game_state \in {"COMPUTING", "ANIMATING"}
                  THEN {"pause"} ELSE {})
            \cup {"new_game"}]

\* GameScreen.__init__ once the environment is built.
GameScreen(agent_names) ==
    _update_button_states(
        [pc |-> "open", agent_names |-> agent_names, game_state |-> "READY",
         current_agent_index |-> 0, current_round |-> 1, auto_run |-> FALSE,
         step_mode |-> "None", round_step_needs_second |-> FALSE,
         timeout_flags |-> <<FALSE, FALSE>>, enabled |-> {},
         worker_done |-> FALSE, worker_result |-> NoStep, threads |-> <<>>,
         winner |-> NoWinner])

\* worker.start(...): the thread's execute_agent_step clones the
\* environment as it is now; its StepResult is delivered when it ends.
_start_agent_computation(h, e, g, limit, fate) ==
    LET started(ex) ==
            [heap |-> ex.heap, env |-> e,
             gui  |-> [g EXCEPT !.game_state = "COMPUTING",
                                !.worker_done = FALSE,
                                !.worker_result = NoStep,
                                !.threads = Append(@, ex.result)]]
    IN  started(execute_agent_step(g.agent_names[g.current_agent_index + 1], h, e,
                                   g.current_agent_index, limit, fate))

_finish_game(h, e, g) ==
    [g EXCEPT !.game_state = "FINISHED", !.auto_run = FALSE,
              !.winner = determine_winner(get_balances(h, e))]

_finish_game_with_error(g) ==
    [g EXCEPT !.game_state = "FINISHED_ERROR", !.auto_run = FALSE]

_apply_move(h, e, g, operator) ==
    LET prev_agent == g.current_agent_index
        advanced == [g EXCEPT !.current_agent_index = (prev_agent + 1) % 2,
                              !.current_round = IF (prev_agent + 1) % 2 = 0
                                                THEN @ + 1 ELSE @,
                              !.game_state = "ANIMATING"]
        applied(ap) ==
            [heap |-> ap.heap, env |-> ap.env,
             gui  |-> IF ap.raised # "" THEN _finish_game_with_error(g)
                      ELSE IF done(ap.heap, ap.env) THEN advanced
                      ELSE IF g.step_mode = "round" /\ prev_agent = 0
                      THEN [advanced EXCEPT !.round_step_needs_second = TRUE]
                      ELSE advanced]
    IN  applied(apply_operator(h, e, prev_agent, operator))

_advance_turn_after_timeout(g) ==
    LET prev_agent == g.current_agent_index
    IN  [g EXCEPT !.current_agent_index = (prev_agent + 1) % 2,
                  !.current_round = IF (prev_agent + 1) % 2 = 0 THEN @ + 1 ELSE @,
                  !.round_step_needs_second =
                      IF g.step_mode = "round" /\ prev_agent = 0 THEN TRUE ELSE @,
                  !.game_state = "ANIMATING"]

\* What update() does in the COMPUTING state once the worker is done.
GameScreen_step_result(h, e, g) ==
    IF g.worker_result.error # ""
    THEN [heap |-> h, env |-> e, gui |-> _finish_game_with_error(g)]
    ELSE IF g.worker_result.timed_out
    THEN [heap |-> h, env |-> e,
          gui  |-> _advance_turn_after_timeout(
                       [g EXCEPT !.timeout_flags[g.current_agent_index + 1] = TRUE])]
    ELSE _apply_move(h, e, g, g.worker_result.operator)

\* update() of one frame; elapsed tells whether the animation delay is over.
GameScreen_update(h, e, g, elapsed, limit, fate) ==
    LET buttons(res) == [res EXCEPT !.gui = _update_button_states(@)]
        same == [heap |-> h, env |-> e, gui |-> g]
        second == g.step_mode = "round" /\ g.round_step_needs_second
    IN  buttons(
          IF g.game_state = "COMPUTING"
          THEN IF g.worker_done THEN GameScreen_step_result(h, e, g) ELSE same
          ELSE IF g.game_state = "ANIMATING" /\ elapsed
          THEN IF done(h, e) THEN [same EXCEPT !.gui = _finish_game(h, e, g)]
               ELSE IF g.auto_run \/ second
               THEN _start_agent_computation(h, e,
                        IF g.auto_run THEN g
                        ELSE [g EXCEPT !.round_step_needs_second = FALSE],
                        limit, fate)
               ELSE [same EXCEPT !.gui.game_state = "WAITING_FOR_INPUT"]
          ELSE same)

\* handle_event(event) for a click on an enabled button.
GameScreen_handle_event(h, e, g, button, limit, fate) ==
    LET same == [heap |-> h, env |-> e, gui |-> g]
        mode(auto_run, step_mode) ==
            [g EXCEPT !.auto_run = auto_run, !.step_mode = step_mode,
                      !.round_step_needs_second = FALSE]
    IN  IF button \in {"run", "step_move", "step_round"}
        THEN _start_agent_computation(h, e,
                 CASE button = "run"        -> mode(TRUE, "None")
                   [] button = "step_move"  -> mode(FALSE, "move")
                   [] button = "step_round" -> mode(FALSE, "round"),
                 limit, fate)
        ELSE IF button = "pause"
        THEN IF g.auto_run THEN [same EXCEPT !.gui.auto_run = FALSE] ELSE same
        ELSE [same EXCEPT !.gui.pc = "closed"]

\* The event set without the result having been stored.
AgentWorker_run_signals_only(g, i) ==
    [g EXCEPT !.worker_done = TRUE,
              !.threads = SubSeq(g.threads, 1, i - 1) \o SubSeq(g.threads, i + 1, Len(g.threads))]

\* AgentWorker._run of thread i ends: the result is stored, the event set.
AgentWorker_run(g, i) ==
    [g EXCEPT !.worker_result = g.threads[i],
              !.worker_done = TRUE,
              !.threads = SubSeq(g.threads, 1, i - 1) \o SubSeq(g.threads, i + 1, Len(g.threads))]

Starts(g, button, elapsed) ==
    \/ button \in {"run", "step_move", "step_round"}
    \/ /\ button = "update" /\ g.game_state = "ANIMATING" /\ elapsed
       /\ g.auto_run \/ (g.step_mode = "round" /\ g.round_step_needs_second)

GuiOpen(agent_names) ==
    /\ sim = Idle /\ gui = Idle
    /\ gui' = GameScreen(agent_names)
    /\ UNCHANGED <<heap, env, cl, last, search, sim>>

GuiHandleEvent(button, limit, fate) ==
    /\ gui.pc = "open"
    /\ button \in gui.enabled
    /\ Starts(gui, button, FALSE)
          => Len(gui.threads) < MaxThreads /\ gui.current_round <= MaxRound
    /\ \E res \in {GameScreen_handle_event(heap, env, gui, button, limit, fate)} :
           /\ heap' = res.heap
           /\ env' = res.env
           /\ gui' = res.gui
    /\ UNCHANGED <<cl, last, search, sim>>

GuiWorkerRun(i) ==
    /\ gui.pc = "open"
    /\ i \in 1..Len(gui.threads)
    /\ gui' = AgentWorker_run(gui, i)
    /\ UNCHANGED <<heap, env, cl, last, search, sim>>

GuiUpdate(elapsed, limit, fate) ==
    /\ gui.pc = "open"
    /\ Starts(gui, "update", elapsed) /\ ~done(heap, env)
          => Len(gui.threads) < MaxThreads /\ gui.current_round <= MaxRound
    /\ \E res \in {GameScreen_update(heap, env, gui, elapsed, limit, fate)} :
           /\ heap' = res.heap
           /\ env' = res.env
           /\ gui' = res.gui
    /\ UNCHANGED <<cl, last, search, sim>>

InitGame ==
    /\ \E i \in GameEnvs(2 * CountSteps) : heap = i.heap /\ env = i.env
    /\ cl = NoEnv
    /\ last = NoCall
    /\ search = Idle /\ sim = Idle /\ gui = Idle

NextGame ==
    \/ \E names \in AgentPairs : SimRun(names)
    \/ \E limit \in GameLimits, f \in Fates : SimTurn(limit, f)
    \/ \E names \in ScreenAgentPairs : GuiOpen(names)
    \/ \E b \in Buttons, limit \in ScreenLimits, f \in Fates : GuiHandleEvent(b, limit, f)
    \/ \E i \in 1..MaxThreads : GuiWorkerRun(i)
    \/ \E elapsed \in BOOLEAN, limit \in ScreenLimits, f \in Fates :
          GuiUpdate(elapsed, limit, f)

SpecGame == InitGame /\ [][NextGame]_vars

\* ------------------------------------------------------------------ C9
\* C9: the game loop asks no agent for a move and applies no operator in a
\* live state where done() holds.
NoTurnOnceDone ==
    [][(\/ sim.pc = "turn" /\ sim' # sim
        \/ /\ gui.pc = "open" /\ gui'.pc = "open"
           /\ Len(gui'.threads) > Len(gui.threads))
       => ~done(heap, env)]_vars

\* ----------------------------------------------------------------- C10
SimTimedOut == sim.pc = "turn" /\ sim' # sim /\ sim'.step.timed_out

GuiTimedOut ==
    /\ gui.pc = "open" /\ gui'.pc = "open"
    /\ gui.game_state = "COMPUTING" /\ gui'.game_state # "COMPUTING"
    /\ gui.worker_done
    /\ gui.worker_result.error = "" /\ gui.worker_result.timed_out

\* C10: a turn whose step is reported as timed out applies no operator: the
\* live environment is what it was, and the turn passes to the other robot.
TimedOutTurnForfeited ==
    [][/\ SimTimedOut => /\ env' = env
                         /\ View(heap', env') = View(heap, env)
                         /\ sim'.pc = "turn" => sim'.agent_index = 1 - sim.agent_index
       /\ GuiTimedOut => /\ env' = env
                         /\ View(heap', env') = View(heap, env)
                         /\ gui'.current_agent_index = 1 - gui.current_agent_index]_vars

\* After a move of robot 0 was applied, robot 1 timed out: more turns have
\* been taken than operators applied, and robot 0 is next.
ForfeitedAfterMove ==
    /\ sim.pc = "turn" /\ sim.step.timed_out
    /\ sim.agent_index = 0
    /\ env.num_steps = 2 * CountSteps - 1
    /\ sim.steps_taken = 2


\* ------------------------------------------------------------------ C11
\* The depth-d minimax value of a move of the root: the value minimaxSearch
\* gives the child the move leads to, the opponent to play.
MoveValue(h, e, r, d, op) ==
    LET valued(a) ==
            minimaxSearch(Start(a.heap), NoDeadline, r, a.env, (r + 1) % 2, d - 1, FALSE).val
        child(c) == valued(apply_operator(c.heap, c.env, r, op))
    IN  child(clone(h, e))

\* C11: a completed alpha-beta search of depth d from the root, with the
\* full window, returns the root value minimax returns for the same state
\* and depth, and a move whose minimax value is that of minimax's move.
AlphaBetaEqualsMinimax ==
    [][(search'.pc = "returned" /\ search'.fn = "search" /\ search'.agent = "alphabeta")
       => LET d  == search'.out.depth
              r  == search'.robot
              mm == Uninterrupted("minimax", heap, env, r, d)
              agree(a, m) ==
                  /\ search'.out.raised = "" /\ m.raised = ""
                  /\ search'.out.val = m.val
                  /\ (a = "None") = (m.op = "None")
                  /\ a # "None" =>
                        MoveValue(heap, env, r, d, a) = MoveValue(heap, env, r, d, m.op)
          IN  agree(search'.out.ret, mm)]_vars

\* Alpha-beta completed a depth-2 search and chose another move than minimax.
AlphaBetaChoseOtherMove ==
    /\ search.pc = "returned" /\ search.fn = "search" /\ search.agent = "alphabeta"
    /\ search.out.depth = 2 /\ search.out.raised = ""
    /\ search.out.ret \in Vocabulary
    /\ search.out.ret # Uninterrupted("minimax", heap, env, search.robot, 2).op

\* ------------------------------------------------------------------ C12
\* C12: a robot whose battery is 0 has exactly one legal operator, park.
StrandedOnlyParks ==
    \A r \in {0, 1} :
        get_robot(heap, env, r).battery = 0
            => get_legal_operators(heap, env, r) = <<"park">>

\* ------------------------------------------------------------------ C13
\* The environments of a state: the live one and, once made, the clone.
Envs == {env} \cup (IF cl = NoEnv THEN {} ELSE {cl})

\* Some listed package that is on board lies on the cell.
OnBoardPackageAt(h, e, position) ==
    \E i \in 1..Len(e.packages) :
        h[e.packages[i]].on_board /\ h[e.packages[i]].position = position

\* C13: in the games started by generate(), pick up is legal for a robot
\* exactly when it carries nothing and a listed on-board package lies on
\* its cell; every on-board listed package is one of the first two entries
\* and no off-board entry on the same cell precedes it.
PickUpLegalOnBoardPackage ==
    \A e \in Envs :
        /\ \A r \in {0, 1} :
              InSeq("pick up", get_legal_operators(heap, e, r))
                 <=> /\ get_robot(heap, e, r).package = None
                     /\ OnBoardPackageAt(heap, e, get_robot(heap, e, r).position)
        /\ \A i \in 1..Len(e.packages) :
              heap[e.packages[i]].on_board
                 => /\ i <= 2
                    /\ \A j \in 1..(i - 1) :
                          heap[e.packages[j]].position = heap[e.packages[i]].position
                             => heap[e.packages[j]].on_board

\* A robot may pick up a package that generate() had left queued and that
\* a drop off has put on board since.
PickUpOfQueuedPackage ==
    \E r \in {0, 1} :
        /\ last.fn = "apply_operator" /\ last.raised = ""
        /\ InSeq("pick up", get_legal_operators(heap, env, r))
        /\ get_package_in(heap, env, get_robot(heap, env, r).position)
              \in {generate(0, 0).env.packages[3], generate(0, 0).env.packages[4]}

\* ------------------------------------------------------------------ C14
\* C14: every robot always has at least one legal operator.
LegalOperatorsNonEmpty ==
    \A e \in Envs : \A r \in {0, 1} : get_legal_operators(heap, e, r) # <<>>

\* After a move of the game a robot with battery left is boxed in by the
\* board's edge and the other robot, with a single operator to choose.
BoxedInWithOneMove ==
    /\ last.fn = "apply_operator" /\ last.raised = ""
    /\ \E r \in {0, 1} :
          /\ get_robot(heap, env, r).battery > 0
          /\ Len(get_legal_operators(heap, env, r)) = 1
          /\ manhattan_distance(get_robot(heap, env, 0).position,
                                get_robot(heap, env, 1).position) = 1

\* ------------------------------------------------------------------ C15
\* C15: the two robots stand on different cells of the board.
RobotsApartOnBoard ==
    \A e \in Envs :
        /\ get_robot(heap, e, 0).position # get_robot(heap, e, 1).position
        /\ \A r \in {0, 1} :
              /\ get_robot(heap, e, r).position[1] \in 0..(board_size - 1)
              /\ get_robot(heap, e, r).position[2] \in 0..(board_size - 1)

\* A robot moved next to the other one, whose cell it may not enter.
MovedNextToOtherRobot ==
    /\ last.fn = "apply_operator" /\ last.op \in MoveNames /\ last.raised = ""
    /\ manhattan_distance(get_robot(heap, env, 0).position,
                          get_robot(heap, env, 1).position) = 1
    /\ Len(SelectSeq(get_legal_operators(heap, env, last.robot),
                     LAMBDA op : op \in MoveNames)) < 4

\* ------------------------------------------------------------------ C16
OnBoardOrCarried(h, e) ==
    Cardinality({i \in 1..Len(e.packages) : h[e.packages[i]].on_board})
    + Cardinality({i \in 1..Len(e.robots) : h[e.robots[i]].package # None})

\* C16: in the games started by generate(), the on-board listed packages
\* and the carried packages are 2 in all, and a drop off finds at least two
\* entries in the package list when it marks one on board.
TwoPackagesInPlay ==
    /\ [](\A e \in Envs : OnBoardOrCarried(heap, e) = 2)
    /\ [][(/\ IsApply(last'.fn) /\ last'.op = "drop off"
           /\ InSeq("drop off", get_legal_operators(heap, Target(last'.fn, env, cl),
                                                    last'.robot))
           /\ Target(last'.fn, env, cl).num_steps > 0)
          => /\ last'.raised = ""
             /\ Len(Target(last'.fn, env', cl').packages) >= 2]_vars

\* A delivery in a generated game: the spawned package is the fourth entry
\* of the list and a package queued before it has come on board.
DeliveredInGeneratedGame ==
    /\ last.fn = "apply_operator" /\ last.op = "drop off" /\ last.raised = ""
    /\ Len(env.packages) = 4
    /\ heap[env.packages[2]].on_board /\ ~heap[env.packages[4]].on_board

\* ------------------------------------------------------------------ C17
\* C17: the package a drop off spawns is on board right after the drop off
\* and sits in one of the first two entries of the package list, every
\* entry before it being on board already.
SpawnedPackageOnBoard ==
    [][(IsApply(last'.fn) /\ last'.op = "drop off" /\ last'.raised = "")
       => LET e1 == Target(last'.fn, env', cl')
              k  == Len(e1.packages)
          IN  /\ e1.packages[k] = Len(heap')
              /\ heap'[e1.packages[k]].on_board
              /\ k <= 2
              /\ \A j \in 1..(k - 1) : heap[e1.packages[j]].on_board]_vars

\* ------------------------------------------------------------------ C18
\* Something other than the package itself occupies the cell: a robot, a
\* charge station or another listed package.
Occupied(h, e, package, cell) ==
    \/ get_robot_in(h, e, cell) # None
    \/ get_charge_station_in(h, e, cell) # None
    \/ \E i \in 1..Len(e.packages) :
          e.packages[i] # package /\ h[e.packages[i]].position = cell

\* C18: the package a drop off spawns lies on a free cell and is bound for
\* another free cell.
SpawnedOnFreeCells ==
    [][(IsApply(last'.fn) /\ last'.op = "drop off" /\ last'.raised = "")
       => LET e1 == Target(last'.fn, env', cl')
              p  == e1.packages[Len(e1.packages)]
          IN  /\ heap'[p].position # heap'[p].destination
              /\ ~Occupied(heap', e1, p, heap'[p].position)
              /\ ~Occupied(heap', e1, p, heap'[p].destination)]_vars

\* ------------------------------------------------------------------ C19
\* The game on ScenarioMap in which robot 0 has just played move south,
\* pick up, move south, drop off: nothing shorter takes it from (0,0) to a
\* delivery at (0,2), and exactly four operators have been applied.
ScenarioPlayed ==
    /\ last = Call("apply_operator", 0, "drop off", "")
    /\ env.num_steps = NumSteps - 4
    /\ get_robot(heap, env, 0).position = <<0, 2>>
    /\ get_robot(heap, env, 1).position = <<4, 4>>
    /\ get_robot(heap, env, 1).battery = 1
    /\ [i \in 1..2 |-> heap[env.charge_stations[i]].position] = << <<0, 4>>, <<4, 0>> >>

\* C19 as stated: the scenario ends with credit 2 for robot 0, credit -2
\* for robot 1 and battery 2 for robot 0.
ScenarioEndsWithBattery2 ==
    ScenarioPlayed
        => /\ get_robot(heap, env, 0).credit = 2
           /\ get_robot(heap, env, 1).credit = 0 - 2
           /\ get_robot(heap, env, 0).battery = 2

\* C19 amended: the scenario ends with credit 2 for robot 0, credit -2 for
\* robot 1 and battery 3 for robot 0, the two moves being all that costs.
ScenarioEndsWithBattery3 ==
    ScenarioPlayed
        => /\ get_robot(heap, env, 0).credit = 2
           /\ get_robot(heap, env, 1).credit = 0 - 2
           /\ get_robot(heap, env, 0).battery = 3

\* The scenario was played and its package delivered for a reward.
ScenarioDelivered ==
    ScenarioPlayed /\ get_robot(heap, env, 0).package = None

\* ------------------------------------------------------------------ C20
\* C20: charge is legal exactly for a robot with credit > 0 on the cell of
\* a charge station, and it turns the whole credit into battery.
ChargeTurnsCreditIntoBattery ==
    /\ [](\A e \in Envs : \A r \in {0, 1} :
             InSeq("charge", get_legal_operators(heap, e, r))
                <=> /\ get_robot(heap, e, r).credit > 0
                    /\ \E i \in 1..Len(e.charge_stations) :
                          heap[e.charge_stations[i]].position
                             = get_robot(heap, e, r).position)
    /\ [][(IsApply(last'.fn) /\ last'.op = "charge" /\ last'.raised = "")
          => LET e0 == Target(last'.fn, env, cl)
                 e1 == Target(last'.fn, env', cl')
                 r  == last'.robot
             IN  /\ get_robot(heap', e1, r).battery
                       = get_robot(heap, e0, r).battery + get_robot(heap, e0, r).credit
                 /\ get_robot(heap', e1, r).credit = 0]_vars

\* The robot with credit 5 and battery 3 has charged: battery 8, credit 0.
ChargedFiveOnThree ==
    /\ last.fn = "apply_operator" /\ last.op = "charge" /\ last.raised = ""
    /\ get_robot(heap, env, last.robot).battery = 8
    /\ get_robot(heap, env, last.robot).credit = 0
\* ----------------------------------------------------------- SpecEndgame
\* The last move of a game: the environment is left with no steps.
PlayOut(r, op) ==
    /\ search = Idle
    /\ InSeq(op, get_legal_operators(heap, env, r))
    /\ env.num_steps = 1
    /\ \E res \in {apply_operator(heap, env, r, op)} :
           /\ heap' = res.heap
           /\ env' = res.env
           /\ last' = Call("apply_operator", r, op, res.raised)
    /\ UNCHANGED <<cl, search, sim, gui>>

\* Games with one step left.
InitEndgame ==
    /\ \E i \in EnvInits(1) : heap = i.heap /\ env = i.env
    /\ cl = NoEnv
    /\ last = NoCall
    /\ search = Idle /\ sim = Idle /\ gui = Idle

NextEndgame ==
    \/ \E r \in {0, 1}, op \in Vocabulary : PlayOut(r, op)
    \/ \E a \in SearchAgents, r \in {0, 1}, limit \in 0..MaxTick : RunStep(a, r, limit)
    \/ \E a \in SearchAgents, r \in {0, 1}, limit \in 0..MaxTick, f \in Fates :
          ExecuteAgentStep(a, r, limit, f)
    \/ \E a \in SearchAgents, r \in {0, 1}, depth \in 1..MaxDepth : Search(a, r, depth)

SpecEndgame == InitEndgame /\ [][NextEndgame]_vars

\* ------------------------------------------------------------------ C21
\* C21: no run_step, on a live or a terminal state, ends by an assertion of
\* apply_operator: every operator a search applies to a clone is legal
\* there and the clone has a step left.
NoAssertionInsideSearch ==
    [][(search'.pc = "returned" /\ search'.fn = "run_step")
          => search'.out.raised # "AssertionError"]_vars

\* ------------------------------------------------------------------ C22
\* The children of the chance node e, the opponent playerId to move with
\* `depth' levels left: each operator with the value of the max node it
\* leads to.
ChanceChildren(h, e, agentId, playerId, depth) ==
    LET valued(s) ==
            [i \in 1..Len(s.operators) |->
                [op  |-> s.operators[i],
                 val |-> expectimaxSearch(Start(s.heap), NoDeadline, agentId,
                                          s.children[i], (playerId + 1) % 2,
                                          depth - 1, TRUE).val]]
    IN  valued(successors(h, e, playerId))

\* 3 for the children reached by move west or pick up, 1 for the others.
ChildWeight(kid) == IF kid.op \in {"move west", "pick up"} THEN 3 ELSE 1

RECURSIVE WeightedSum(_, _)
WeightedSum(kids, i) ==
    IF i > Len(kids) THEN Whole(0)
    ELSE Plus(Times(kids[i].val, ChildWeight(kids[i])), WeightedSum(kids, i + 1))

RECURSIVE PlainSum(_, _)
PlainSum(kids, i) ==
    IF i > Len(kids) THEN Whole(0) ELSE Plus(kids[i].val, PlainSum(kids, i + 1))

RECURSIVE TotalWeight(_, _)
TotalWeight(kids, i) ==
    IF i > Len(kids) THEN 0 ELSE ChildWeight(kids[i]) + TotalWeight(kids, i + 1)

WeightedAverage(kids) ==
    IF kids = <<>> THEN Whole(0)
    ELSE Over(WeightedSum(kids, 1), TotalWeight(kids, 1))

\* The value expectimaxSearch gives the chance node e.
ChanceNodeValue(h, e, agentId, playerId, depth) ==
    expectimaxSearch(Start(h), NoDeadline, agentId, e, playerId, depth, FALSE).val

\* The chance nodes below the root of a search of robot r from env that
\* have levels left and are not terminal.
InnerChanceNodes(s, depth) ==
    {i \in 1..Len(s.children) : depth > 1 /\ ~done(s.heap, s.children[i])}

RECURSIVE MaxOf(_, _, _)
MaxOf(vals, i, best) ==
    IF i > Len(vals) THEN best ELSE MaxOf(vals, i + 1, Max(best, vals[i]))

\* C22: in a completed expectimax search every chance node below the root
\* is worth the weighted average of its children, move west and pick up
\* weighing 3 and every other move 1 (0 without children), and the root is
\* worth the largest of its chance nodes.
ChanceNodeIsWeightedAverage ==
    [][(/\ search'.pc = "returned" /\ search'.fn = "search"
        /\ search'.agent = "expectimax" /\ search'.out.raised = ""
        /\ ~done(heap, env))
       => LET r   == search'.robot
              d   == search'.out.depth
              opp == (search'.robot + 1) % 2
              below(s) ==
                  /\ \A i \in InnerChanceNodes(s, d) :
                        ChanceNodeValue(s.heap, s.children[i], r, opp, d - 1)
                           = WeightedAverage(ChanceChildren(s.heap, s.children[i],
                                                            r, opp, d - 1))
                  /\ search'.out.val
                        = MaxOf([i \in 1..Len(s.children) |->
                                    ChanceNodeValue(s.heap, s.children[i], r, opp, d - 1)],
                                1, NegInf)
          IN  below(successors(heap, env, r))]_vars

\* A depth-2 expectimax search has returned, and below its root lies a
\* chance node whose weighted average is not the plain mean of its children.
WeightsMattered ==
    /\ search.pc = "returned" /\ search.fn = "search"
    /\ search.agent = "expectimax" /\ search.out.raised = ""
    /\ search.out.depth = 2 /\ ~done(heap, env)
    /\ LET opp == (search.robot + 1) % 2
           uneven(kids) ==
               /\ \E k \in 1..Len(kids) : ChildWeight(kids[k]) = 3
               /\ WeightedAverage(kids) # Over(PlainSum(kids, 1), Len(kids))
           some(s) ==
               \E i \in InnerChanceNodes(s, 2) :
                   uneven(ChanceChildren(s.heap, s.children[i], search.robot, opp, 1))
       IN  some(successors(heap, env, search.robot))

\* ------------------------------------------------------------------ C23
\* The opportunities of a robot: the on-board listed packages and the
\* package it carries that it can deliver within the moves and the battery
\* it has left, each with its value (reward over cost) and its cost.
Opportunities(h, e, robot, opponent) ==
    LET moves == (e.num_steps + 1) \div 2
        within(id) == moves >= get_cost(h, robot, id) /\ robot.battery >= get_cost(h, robot, id)
        offer(id) == [value |-> Frac(get_reward(h[id]), get_cost(h, robot, id)),
                      cost  |-> get_cost(h, robot, id)]
        listed == {e.packages[i] : i \in 1..Len(e.packages)}
    IN  {offer(id) : id \in {p \in listed : /\ h[p].on_board /\ within(p)
                                            /\ opponent.package # p}}
        \cup {offer(id) : id \in {p \in {robot.package} : p # None /\ within(p)}}

\* The value of the best opportunity, 0 without one.
Opportunity(offers) ==
    IF offers = {} THEN Whole(0)
    ELSE (CHOOSE o \in offers : \A p \in offers : ~Less(o.value, p.value)).value

\* Minus the cost of the best opportunity, the cheaper of equally good
\* ones, and 0 without one.
Proximity(offers) ==
    IF offers = {} THEN 0
    ELSE 0 - (CHOOSE o \in offers :
                 /\ o.value = Opportunity(offers)
                 /\ \A p \in offers : p.value = o.value => o.cost <= p.cost).cost

\* Minus the distance to the destination of the carried package.
Carrying(h, robot) ==
    IF robot.package = None THEN 0
    ELSE 0 - manhattan_distance(robot.position, h[robot.package].destination)

BatteryAdvantage(h, e, robot) ==
    robot.battery
    - (CHOOSE m \in 0..(2 * board_size) :
          /\ \E i \in 1..Len(e.charge_stations) :
                m = manhattan_distance(robot.position, h[e.charge_stations[i]].position)
          /\ \A i \in 1..Len(e.charge_stations) :
                m <= manhattan_distance(robot.position, h[e.charge_stations[i]].position))

\* The score of the state for robot me against robot opp.
FinalScore(h, e, me, opp) ==
    LET sum(mine, theirs) ==
            Plus(Plus(Times(Opportunity(mine), 10), Times(Opportunity(theirs), 0 - 10)),
                 Whole(10 * (me.credit - opp.credit)
                       + BatteryAdvantage(h, e, me) - BatteryAdvantage(h, e, opp)
                       + 3 * Proximity(mine) - Proximity(theirs)
                       + 3 * Carrying(h, me) - Carrying(h, opp)))
    IN  sum(Opportunities(h, e, me, opp), Opportunities(h, e, opp, me))

\* -------------------------------------------------------- SpecHeuristic
HeuristicSteps == 12   \* num_steps of the games whose states are scored

MaxAdvance == 3        \* moves of the game played before a state is scored

\* A move of the game played before the state is scored.
Advance(r, op) ==
    /\ search = Idle
    /\ InSeq(op, get_legal_operators(heap, env, r))
    /\ HeuristicSteps - env.num_steps < MaxAdvance
    /\ \E res \in {apply_operator(heap, env, r, op)} :
           /\ heap' = res.heap
           /\ env' = res.env
           /\ last' = Call("apply_operator", r, op, res.raised)
    /\ UNCHANGED <<cl, search, sim, gui>>

\* smart_heuristic(env, r)
Evaluate(r) ==
    /\ search = Idle
    /\ search' = SearchCall("smart_heuristic", "", r, NoDeadline,
                            [val |-> smart_heuristic(heap, env, r)])
    /\ UNCHANGED <<heap, env, cl, last, sim, gui>>

\* Robot 0 stands on a package; robot 1 has two packages of value 2/3 in
\* reach, one under it at cost 3 and one two cells away at cost 6.
HeuristicMap ==
    [robots |-> <<MapRobot(0, 0, 20, 0), MapRobot(4, 4, 20, 0)>>,
     packages |-> <<MapPackage(0, 0, 0, 2), MapPackage(4, 4, 4, 3),
                    MapPackage(4, 2, 2, 2)>>,
     charge_stations |-> <<MapStation(2, 0), MapStation(0, 4)>>]

InitHeuristic ==
    /\ \E i \in EnvInits(HeuristicSteps)
                 \cup {load_from_map_data(HeuristicMap, HeuristicSteps, 0)} :
           heap = i.heap /\ env = i.env
    /\ cl = NoEnv
    /\ last = NoCall
    /\ search = Idle /\ sim = Idle /\ gui = Idle

NextHeuristic ==
    \/ \E r \in {0, 1}, op \in Vocabulary : Advance(r, op)
    \/ \E r \in {0, 1} : Evaluate(r)

SpecHeuristic == InitHeuristic /\ [][NextHeuristic]_vars

\* C23: smart_heuristic returns 10 opportunity_self - 10 opportunity_opp
\* + 10 (credit_self - credit_opp) + battery_adv_self - battery_adv_opp
\* + 3 proximity_self - proximity_opp + 3 carrying_self - carrying_opp, an
\* opportunity being any package the robot can still deliver.
HeuristicIsWeightedSum ==
    [][(search'.pc = "returned" /\ search'.fn = "smart_heuristic")
          => search'.out.val
                = FinalScore(heap, env, get_robot(heap, env, search'.robot),
                             get_robot(heap, env, (search'.robot + 1) % 2))]_vars

\* The state of a robot that carries a package it can deliver was scored,
\* the other robot having two equally good opportunities of different cost.
ScoredWhileCarrying ==
    /\ search.pc = "returned" /\ search.fn = "smart_heuristic"
    /\ LET me  == get_robot(heap, env, search.robot)
           opp == get_robot(heap, env, (search.robot + 1) % 2)
       IN  /\ Opportunities(heap, env, me, opp) # {}
           /\ Carrying(heap, me) < 0
           /\ \E o, p \in Opportunities(heap, env, opp, me) :
                 o.value = p.value /\ o.cost # p.cost

\* ------------------------------------------------------- AgentHardCoded
trajectory ==
    <<"move north", "move east", "move north", "move north", "pick_up",
      "move east", "move east", "move south", "move south", "move south",
      "move south", "drop_off">>

\* AgentHardCoded(): self.step = 0
AgentHardCoded == [step |-> 0]

\* run_random_step: random.choice(operators); `pick' is the index drawn.
run_random_step(h, e, robot_id, pick) ==
    LET chosen(s) ==
            IF s.raised # "" THEN [op |-> "None", raised |-> s.raised]
            ELSE IF s.operators = <<>> THEN [op |-> "None", raised |-> "IndexError"]
            ELSE [op |-> s.operators[pick], raised |-> ""]
    IN  chosen(successors(h, e, robot_id))

\* run_step of the agent object `self': the next operator of the script,
\* or a random legal one when that operator is not legal or the script is over.
AgentHardCoded_run_step(self, h, e, robot_id, pick) ==
    LET random(r, next) ==
            [self |-> IF r.raised = "" THEN next ELSE self,
             op |-> r.op, raised |-> r.raised]
        scripted(op) ==
            IF ~InSeq(op, get_legal_operators(h, e, robot_id))
            THEN random(run_random_step(h, e, robot_id, pick),
                        [self EXCEPT !.step = @ + 1])
            ELSE [self |-> [self EXCEPT !.step = @ + 1], op |-> op, raised |-> ""]
    IN  IF self.step = Len(trajectory)
        THEN random(run_random_step(h, e, robot_id, pick), self)
        ELSE scripted(trajectory[self.step + 1])

\* _subprocess_worker("hardcoded", env_clone, agent_id, ...): the agent is
\* made anew by create_agent in every child process.
subprocess_worker_hardcoded(h, e, agent_id, pick) ==
    LET put(r) == IF r.raised # "" THEN StepResult("None", FALSE, r.raised)
                  ELSE StepResult(r.op, FALSE, "")
    IN  put(AgentHardCoded_run_step(AgentHardCoded, h, e, agent_id, pick))

\* ------------------------------------------------------------ SpecScript
ScriptRounds == 3      \* rounds of the game the scripted agents play

\* One pass through the body of the inner loop of GameSimulator.run, both
\* robots played by "hardcoded" and the child finishing in time.
ScriptTurn(pick) ==
    /\ sim.pc = "script"
    /\ sim.round_num < ScriptRounds
    /\ pick <= Len(get_legal_operators(heap, env, sim.agent_index))
    /\ \E step \in {LET run(c) == subprocess_worker_hardcoded(c.heap, c.env,
                                                              sim.agent_index, pick)
                    IN  run(clone(heap, env))} :
          /\ search' = SearchCall("execute_agent_step", "hardcoded", sim.agent_index,
                                  NoDeadline, step)
          /\ IF step.error # ""
             THEN /\ sim' = [sim EXCEPT !.pc = "error"]
                  /\ UNCHANGED <<heap, env, last>>
             ELSE \E ap \in {apply_operator(heap, env, sim.agent_index, step.operator)} :
                     /\ heap' = ap.heap
                     /\ env' = ap.env
                     /\ last' = Call("apply_operator", sim.agent_index,
                                     step.operator, ap.raised)
                     /\ sim' = IF ap.raised # "" THEN [sim EXCEPT !.pc = "error"]
                               ELSE IF sim.agent_index = 0
                               THEN [sim EXCEPT !.agent_index = 1]
                               ELSE [sim EXCEPT !.agent_index = 0, !.round_num = @ + 1]
    /\ UNCHANGED <<cl, gui>>

InitScript ==
    /\ \E i \in EnvInits(2 * ScriptRounds)
                 \cup {load_from_map_data(ChargeMap, 2 * ScriptRounds, 0)} :
           heap = i.heap /\ env = i.env
    /\ cl = NoEnv
    /\ last = NoCall
    /\ sim = [pc |-> "script", round_num |-> 0, agent_index |-> 0]
    /\ search = Idle /\ gui = Idle

NextScript == \E pick \in 1..Cardinality(Vocabulary) : ScriptTurn(pick)

SpecScript == InitScript /\ [][NextScript]_vars

\* ------------------------------------------------------------------ C24
\* C24: in its k-th turn of a game, k below the length of the script, the
\* hard-coded agent returns the k-th operator of the script when that is
\* legal in the state of the game, and some legal operator otherwise.
ScriptPlayedInOrder ==
    [][(/\ sim.pc = "script" /\ search'.pc = "returned"
        /\ search'.agent = "hardcoded" /\ search'.out.error = ""
        /\ sim.round_num < Len(trajectory))
       => IF InSeq(trajectory[sim.round_num + 1],
                   get_legal_operators(heap, env, sim.agent_index))
          THEN search'.out.operator = trajectory[sim.round_num + 1]
          ELSE InSeq(search'.out.operator,
                     get_legal_operators(heap, env, sim.agent_index))]_vars

StepResultShapes ==
    [][(/\ search'.pc = "returned" /\ search'.fn = "execute_agent_step"
        /\ search'.agent \in SearchAgents)
       => LET out == search'.out
              shapes(ran) ==
                  {<<out.timed_out /\ out.operator = "None" /\ out.error = "", 1>>,
                   <<~out.timed_out /\ out.operator = "None" /\ out.error # "", 2>>,
                   <<~out.timed_out /\ out.error = "" /\ ran.raised = ""
                        /\ out.operator = ran.ret, 3>>}
              one(s) == Cardinality({x \in s : x[1]}) = 1
          IN  one(shapes(run_step(search'.agent, heap, env, search'.robot,
                                  search'.limit)))]_vars

\* The agent raised in its child process and the result carries the error.
AgentErrorReported ==
    /\ search.pc = "returned" /\ search.fn = "execute_agent_step"
    /\ search.out.error = "AssertionError"
    /\ ~search.out.timed_out /\ search.out.operator = "None"

\* ----------------------------------------------------------- SpecProcess
\* execute_agent_step step by step, with the child process beside it.
\* proc is "running", "exited" (the child returned or died by itself),
\* "terminated" (SIGTERM) or "killed" (SIGKILL); queued tells whether the
\* child has put its result on result_queue; a stubborn child survives
\* SIGTERM.
ProcCall(pc, agent, robot, limit, proc, stubborn, queued, result, out) ==
    [pc |-> pc, fn |-> "execute_agent_step", agent |-> agent, robot |-> robot,
     limit |-> limit, proc |-> proc, stubborn |-> stubborn, queued |-> queued,
     result |-> result, out |-> out]

\* What _subprocess_worker puts on the queue.
subprocess_worker(agent_name, h, e, agent_id, limit) ==
    LET put(r) == IF r.raised # "" THEN [operator |-> "None", error |-> r.raised]
                  ELSE [operator |-> r.ret, error |-> ""]
    IN  put(run_step(agent_name, h, e, agent_id, limit))

\* SIGKILL left out.
proc_kill_skipped(s) == s

\* proc.terminate()
proc_terminate(s) ==
    IF s.proc = "running" /\ ~s.stubborn THEN [s EXCEPT !.proc = "terminated"] ELSE s

\* proc.kill(); proc.join()
proc_kill(s) == IF s.proc = "running" THEN [s EXCEPT !.proc = "killed"] ELSE s

\* env_clone = env.clone(); proc.start(); the parent waits in proc.join.
StartProcess(agent, r, limit, stubborn) ==
    /\ search = Idle
    /\ \E res \in {LET run(c) == subprocess_worker(agent, c.heap, c.env, r, limit)
                   IN  run(clone(heap, env))} :
          search' = ProcCall("join", agent, r, limit, "running", stubborn, FALSE,
                             res, NoStep)
    /\ UNCHANGED <<heap, env, cl, last, sim, gui>>

\* The child: result_queue.put(...)
ChildPut ==
    /\ search.pc \notin {"idle", "returned"}
    /\ search.proc = "running" /\ ~search.queued
    /\ search' = [search EXCEPT !.queued = TRUE]
    /\ UNCHANGED <<heap, env, cl, last, sim, gui>>

\* The child ends by itself: after its put, or without one when it dies.
ChildExit ==
    /\ search.pc \notin {"idle", "returned"}
    /\ search.proc = "running"
    /\ search' = [search EXCEPT !.proc = "exited"]
    /\ UNCHANGED <<heap, env, cl, last, sim, gui>>

\* proc.join(timeout=join_timeout) returns, the child gone or the time up,
\* and `if proc.is_alive():' is evaluated.
JoinReturns ==
    /\ search.pc = "join"
    /\ search' = [search EXCEPT !.pc = IF search.proc = "running"
                                       THEN "terminate" ELSE "get"]
    /\ UNCHANGED <<heap, env, cl, last, sim, gui>>

\* proc.terminate(); proc.join(timeout=1.0)
Terminate ==
    /\ search.pc = "terminate"
    /\ search' = [proc_terminate(search) EXCEPT !.pc = "is_alive"]
    /\ UNCHANGED <<heap, env, cl, last, sim, gui>>

\* if proc.is_alive(): proc.kill(); proc.join() -- and the timed-out result.
KillAndReturn ==
    /\ search.pc = "is_alive"
    /\ search' = [proc_kill(search) EXCEPT !.pc = "returned",
                                            !.out = StepResult("None", TRUE, "")]
    /\ UNCHANGED <<heap, env, cl, last, sim, gui>>

\* result_queue.get_nowait() and the three results that follow it.
GetResult ==
    /\ search.pc = "get"
    /\ search' = [search EXCEPT
                    !.pc = "returned",
                    !.out = IF ~search.queued THEN StepResult("None", FALSE, "no result")
                            ELSE IF search.result.error # ""
                            THEN StepResult("None", FALSE, search.result.error)
                            ELSE StepResult(search.result.operator, FALSE, "")]
    /\ UNCHANGED <<heap, env, cl, last, sim, gui>>

NextProcess ==
    \/ \E a \in SearchAgents, r \in {0, 1}, limit \in {0, MaxTick}, stubborn \in BOOLEAN :
          StartProcess(a, r, limit, stubborn)
    \/ ChildPut
    \/ ChildExit
    \/ JoinReturns
    \/ Terminate
    \/ KillAndReturn
    \/ GetResult

SpecProcess == InitSearch /\ [][NextProcess]_vars

\* ------------------------------------------------------------------ C27
\* C27: when execute_agent_step returns, its child process runs no more; a
\* timed-out result is returned only after the child, found alive, was
\* terminated or killed, and carries nothing the child put on the queue.
ChildStoppedOnReturn ==
    (search.pc = "returned" /\ search.fn = "execute_agent_step")
       => /\ search.proc # "running"
          /\ search.out.timed_out
                => /\ search.out.operator = "None" /\ search.out.error = ""
                   /\ search.proc \in {"terminated", "killed", "exited"}
          /\ search.proc \in {"terminated", "killed"} => search.out.timed_out

\* A child that had put its result and outlived SIGTERM was killed, and
\* the timed-out result was returned.
StubbornChildKilled ==
    /\ search.pc = "returned" /\ search.fn = "execute_agent_step"
    /\ search.proc = "killed" /\ search.queued
    /\ search.result.operator \in Vocabulary
    /\ search.out = StepResult("None", TRUE, "")

\* ------------------------------------------------------------------ C28
\* The turn of GameSimulator.run that is being taken ends by an error: the
\* agent step reports one, or the operator it returned cannot be applied.
TurnFails ==
    /\ sim.pc = "turn" /\ sim' # sim
    /\ \/ sim'.step.error # ""
       \/ /\ ~sim'.step.timed_out
          /\ \/ ~InSeq(sim'.step.operator,
                       get_legal_operators(heap, env, sim.agent_index))
             \/ env.num_steps <= 0

\* C28: the result of GameSimulator.run has no winner when its error is
\* set, and otherwise the winner the comparison of the two final credits
\* gives; an agent step error and a failing apply_operator set the error
\* and end the game, after which no operator is applied.
ErroredGameHasNoWinner ==
    /\ [](sim.pc \in {"finished", "error"}
            => /\ sim.result.final_credits = get_balances(heap, env)
               /\ (sim.pc = "error") = (sim.result.error_phase # "")
               /\ sim.result.winner
                     = IF sim.result.error_phase # "" THEN NoWinner
                       ELSE IF sim.result.final_credits[1] > sim.result.final_credits[2]
                       THEN 0
                       ELSE IF sim.result.final_credits[2] > sim.result.final_credits[1]
                       THEN 1
                       ELSE NoWinner)
    /\ [][TurnFails => /\ sim'.pc = "error"
                       /\ sim'.result.error_phase \in {"agent_step", "apply_operator"}
                       /\ View(heap', [env' EXCEPT !.num_steps = 0])
                             = View(heap, [env EXCEPT !.num_steps = 0])]_vars
    /\ [][sim.pc = "error" => View(heap', env') = View(heap, env)]_vars

\* A game ended by an error while one robot was ahead in credit.
ErroredWhileAhead ==
    /\ sim.pc = "error"
    /\ sim.steps_taken > 0
    /\ sim.result.final_credits[1] # sim.result.final_credits[2]
    /\ sim.result.winner = NoWinner


\* ------------------------------------------------------------------ replay
\* src/log_replay.py: ReplayEngine.  The engine lives in `sim', its
\* _current_env in `env', and every environment it clones in `heap'.
ReplaySteps == 1         \* count_steps of the replayed game
MaxMoves == 3            \* longest move list handed to the engine
MaxCalls == 3            \* navigation calls made on one engine

CHECKPOINT_INTERVAL == 50

\* custom_map_data of a log that embeds no map: None.
NoMap == [robots |-> <<>>, packages |-> <<>>, charge_stations |-> <<>>]

ReplayData(seed, count_steps, moves) ==
    [seed |-> seed, count_steps |-> count_steps, moves |-> moves, custom_map_data |-> NoMap]

\* ReplayData(..., custom_map_data=map)
ReplayDataOnMap(seed, count_steps, moves, map) ==
    [seed |-> seed, count_steps |-> count_steps, moves |-> moves, custom_map_data |-> map]

\* The first lines of _build_checkpoints: the environment of a log with a
\* map is loaded from the map, which draws a seed, and is then given the
\* logged seed; `drawn' is the seed drawn.
replay_start(data, drawn) ==
    IF data.custom_map_data # NoMap
    THEN LET seeded(g) == [g EXCEPT !.env.seed = data.seed]
         IN  seeded(load_from_map_data(data.custom_map_data, 2 * data.count_steps, drawn))
    ELSE generate(data.seed, 2 * data.count_steps)

\* The engine between the first and the last line of _build_checkpoints.
\* `applied' lists the indices of the moves handed to apply_operator.
Building(h, e, checkpoints) ==
    [heap |-> h, env |-> e, truncated |-> FALSE, checkpoints |-> checkpoints, valid_move_count |-> 0, applied |-> {}, raised |-> ""]

\* The passes lo .. hi of the for loop of _build_checkpoints, counted from
\* 1: moves[i] is the move whose Python index is i - 1.  A pass that finds
\* an illegal operator, or in which apply_operator raises, is the last one.
\* The passes are taken half by half, the first half before the second.
RECURSIVE validate_moves(_, _, _, _)
validate_moves(moves, lo, hi, st) ==
    IF lo > hi THEN st
    ELSE IF lo < hi
    THEN LET mid   == (lo + hi) \div 2
             first == validate_moves(moves, lo, mid, st)
         IN  IF first.truncated \/ first.raised # "" THEN first
             ELSE validate_moves(moves, mid + 1, hi, first)
    ELSE LET i         == lo
             agent_idx == moves[i][1]
             operator  == moves[i][2]
             legal     == get_legal_operators(st.heap, st.env, agent_idx)
             kept(ap, cp) ==
                 IF i % CHECKPOINT_INTERVAL = 0
                 THEN [st EXCEPT !.heap = cp.heap, !.env = ap.env,
                                 !.checkpoints = @ @@ (i :> cp.env),
                                 !.valid_move_count = i,
                                 !.applied = @ \cup {i - 1}]
                 ELSE [st EXCEPT !.heap = ap.heap, !.env = ap.env,
                                 !.valid_move_count = i,
                                 !.applied = @ \cup {i - 1}]
             applied(ap) ==
                 IF ap.raised # ""
                 THEN [st EXCEPT !.heap = ap.heap, !.env = ap.env,
                                 !.applied = @ \cup {i - 1},
                                 !.raised = ap.raised]
                 ELSE kept(ap, clone(ap.heap, ap.env))
         IN  IF ~InSeq(operator, legal)
             THEN [st EXCEPT !.truncated = TRUE]
             ELSE applied(apply_operator(st.heap, st.env, agent_idx, operator))

\* _build_checkpoints, called by __init__: the environment is generated
\* from the seed or loaded from the map, checkpoint 0 is a clone of it, the
\* moves are validated, the last validated state becomes a checkpoint and
\* _current_env a clone of checkpoint 0.  The seed that load_from_map_data
\* draws is overwritten at once, so one value stands for all of them.
_build_checkpoints(data) ==
    LET final(st) ==
            IF st.raised # "" \/ st.valid_move_count \in DOMAIN st.checkpoints
            THEN st
            ELSE LET cp == clone(st.heap, st.env)
                 IN  [st EXCEPT !.heap = cp.heap,
                                !.checkpoints = @ @@ (st.valid_move_count :> cp.env)]
        started(g, cp) ==
            final(validate_moves(data.moves, 1, Len(data.moves),
                                 Building(cp.heap, g.env, (0 :> cp.env))))
        generated(g) == started(g, clone(g.heap, g.env))
        current(st, cp) ==
            IF st.raised # "" THEN st ELSE [st EXCEPT !.heap = cp.heap, !.env = cp.env]
        built(st) == current(st, clone(st.heap, st.checkpoints[0]))
    IN  built(generated(replay_start(data, 0)))

\* ReplayEngine(data): the fields of the engine after __init__, or the
\* exception that left it.
ReplayEngine(data) ==
    LET made(b) ==
            [heap |-> b.heap, env |-> b.env,
             engine |-> [pc |-> IF b.raised # "" THEN "raised" ELSE "replay",
                         data |-> data,
                         truncated |-> b.truncated,
                         checkpoints |-> b.checkpoints,
                         valid_move_count |-> b.valid_move_count,
                         current_index |-> 0,
                         applied |-> b.applied,
                         raised |-> b.raised,
                         fn |-> "__init__", ret |-> FALSE, calls |-> 0]]
    IN  made(_build_checkpoints(data))

total_moves(self) == self.valid_move_count

\* What a navigation call leaves behind.
Navigated(h, e, self, raised) == [heap |-> h, env |-> e, engine |-> self, raised |-> raised]

\* The passes of the loop over range(i, target) of _reconstruct_state, i a
\* Python index; a pass in which apply_operator raises is the last one.
\* The passes are taken half by half, the first half before the second.
RECURSIVE replay_moves(_, _, _, _, _)
replay_moves(self, h, e, i, target) ==
    IF i >= target THEN Navigated(h, e, self, "")
    ELSE IF i + 1 < target
    THEN LET mid   == (i + target) \div 2
             first == replay_moves(self, h, e, i, mid)
         IN  IF first.raised # "" THEN first
             ELSE replay_moves(first.engine, first.heap, first.env, mid, target)
    ELSE IF i >= Len(self.data.moves) THEN Navigated(h, e, self, "IndexError")
    ELSE LET agent_idx == self.data.moves[i + 1][1]
             operator  == self.data.moves[i + 1][2]
             noted     == [self EXCEPT !.applied = @ \cup {i}]
             applied(ap) == Navigated(ap.heap, ap.env, noted, ap.raised)
         IN  applied(apply_operator(h, e, agent_idx, operator))

\* _reconstruct_state replaying on the stored checkpoint itself, without
\* the clone.
_reconstruct_state_in_place(self, h, target_index) ==
    LET indices == DOMAIN self.checkpoints
        below   == {k \in indices : k <= target_index}
        best_cp == IF below = {} THEN CHOOSE k \in indices : \A j \in indices : j <= k
                   ELSE CHOOSE k \in below : \A j \in below : j <= k
    IN  replay_moves(self, h, self.checkpoints[best_cp], best_cp, target_index)

\* _reconstruct_state: bisect_right picks the highest checkpoint that is
\* not above the target; below every checkpoint the index pos - 1 = -1
\* picks the last one.
_reconstruct_state(self, h, target_index) ==
    LET indices == DOMAIN self.checkpoints
        below   == {k \in indices : k <= target_index}
        best_cp == IF below = {} THEN CHOOSE k \in indices : \A j \in indices : j <= k
                   ELSE CHOOSE k \in below : \A j \in below : j <= k
        from(cp) == replay_moves(self, cp.heap, cp.env, best_cp, target_index)
    IN  from(clone(h, self.checkpoints[best_cp]))

Answered(self, fn, ret) == [self EXCEPT !.fn = fn, !.ret = ret, !.calls = @ + 1]

\* A navigation call whose new position is `index' and whose environment
\* is rebuilt by `res'.
Moved(self, fn, ret, index, res) ==
    IF res.raised # ""
    THEN [res EXCEPT !.engine = [Answered(res.engine, fn, FALSE) EXCEPT !.pc = "raised", !.raised = res.raised, !.current_index = index]]
    ELSE [res EXCEPT !.engine = [Answered(res.engine, fn, ret) EXCEPT !.current_index = index]]

step_forward(self, h, e) ==
    IF self.current_index < total_moves(self)
    THEN LET agent_idx == self.data.moves[self.current_index + 1][1]
             operator  == self.data.moves[self.current_index + 1][2]
             noted     == [self EXCEPT !.applied = @ \cup {self.current_index}]
             stepped(ap) ==
                 Moved(self, "step_forward", TRUE, self.current_index + 1,
                       Navigated(ap.heap, ap.env, noted, ap.raised))
             cloned(cp) == stepped(apply_operator(cp.heap, cp.env, agent_idx, operator))
         IN  cloned(clone(h, e))
    ELSE Navigated(h, e, Answered(self, "step_forward", FALSE), "")

step_backward(self, h, e) ==
    IF self.current_index > 0
    THEN Moved(self, "step_backward", TRUE, self.current_index - 1,
               _reconstruct_state(self, h, self.current_index - 1))
    ELSE Navigated(h, e, Answered(self, "step_backward", FALSE), "")

go_to_start(self, h, e) ==
    IF self.current_index # 0
    THEN LET cp == clone(h, self.checkpoints[0])
         IN  Moved(self, "go_to_start", FALSE, 0, Navigated(cp.heap, cp.env, self, ""))
    ELSE Navigated(h, e, Answered(self, "go_to_start", FALSE), "")

go_to_end(self, h, e) ==
    LET target == total_moves(self)
    IN  IF self.current_index # target
        THEN Moved(self, "go_to_end", FALSE, target, _reconstruct_state(self, h, target))
        ELSE Navigated(h, e, Answered(self, "go_to_end", FALSE), "")

go_to_index_as_given(self, h, e, given) ==
    LET index == given
    IN  IF index # self.current_index
        THEN Moved(self, "go_to_index", FALSE, index, _reconstruct_state(self, h, index))
        ELSE Navigated(h, e, Answered(self, "go_to_index", FALSE), "")

go_to_index(self, h, e, given) ==
    LET capped == IF given < total_moves(self) THEN given ELSE total_moves(self)
        index  == IF capped > 0 THEN capped ELSE 0
    IN  IF index # self.current_index
        THEN Moved(self, "go_to_index", FALSE, index, _reconstruct_state(self, h, index))
        ELSE Navigated(h, e, Answered(self, "go_to_index", FALSE), "")

\* ------------------------------------------------------------------ SpecReplay
\* Operators found in the logs the engine is given; "ILLEGAL_OP" is the
\* one of test_replay_truncation_diagnostics.
ReplayOperators == {"move north", "pick up", "ILLEGAL_OP"}

ReplayMoves == {<<i, op>> : i \in {0, 1}, op \in ReplayOperators}

MoveLists == UNION {[1..n -> ReplayMoves] : n \in 0..MaxMoves}

ReplaySeeds == {47}

\* The integers handed to go_to_index.
NavIndices == (0 - 1)..(MaxMoves + 1)

\* engine = ReplayEngine(replay_data)
OpenReplay(seed, moves) ==
    /\ sim = Idle
    /\ \E made \in {ReplayEngine(ReplayData(seed, ReplaySteps, moves))} :
          /\ heap' = made.heap
          /\ env' = made.env
          /\ sim' = made.engine
    /\ UNCHANGED <<cl, last, search, gui>>

Navigate(res) ==
    /\ heap' = res.heap
    /\ env' = res.env
    /\ sim' = res.engine
    /\ UNCHANGED <<cl, last, search, gui>>

CanNavigate == sim # Idle /\ sim.pc = "replay" /\ sim.calls < MaxCalls

StepForward == CanNavigate /\ Navigate(step_forward(sim, heap, env))

StepBackward == CanNavigate /\ Navigate(step_backward(sim, heap, env))

GoToStart == CanNavigate /\ Navigate(go_to_start(sim, heap, env))

GoToEnd == CanNavigate /\ Navigate(go_to_end(sim, heap, env))

GoToIndex(index) == CanNavigate /\ Navigate(go_to_index(sim, heap, env, index))

InitReplay ==
    /\ heap = <<>>
    /\ env = NoEnv
    /\ cl = NoEnv
    /\ last = NoCall
    /\ search = Idle /\ sim = Idle /\ gui = Idle

NextReplay ==
    \/ \E seed \in ReplaySeeds, moves \in MoveLists : OpenReplay(seed, moves)
    \/ StepForward
    \/ StepBackward
    \/ GoToStart
    \/ GoToEnd
    \/ \E index \in NavIndices : GoToIndex(index)

SpecReplay == InitReplay /\ [][NextReplay]_vars

\* ------------------------------------------------------------------ C29
\* The index of the first move of the list that is not among the legal
\* operators of its robot in the state the moves before it lead to, and
\* the length of the list when there is none; i counts from 1.
RECURSIVE FirstIllegalFrom(_, _, _, _)
FirstIllegalFrom(h, e, moves, i) ==
    IF i > Len(moves) THEN Len(moves)
    ELSE IF ~InSeq(moves[i][2], get_legal_operators(h, e, moves[i][1])) THEN i - 1
    ELSE LET next(ap) == FirstIllegalFrom(ap.heap, ap.env, moves, i + 1)
         IN  next(apply_operator(h, e, moves[i][1], moves[i][2]))

FirstIllegal(data) ==
    LET from(g) == FirstIllegalFrom(g.heap, g.env, data.moves, 1)
    IN  from(generate(data.seed, 2 * data.count_steps))

NavigationStaysInRange ==
    /\ [](sim.pc = "replay"
            => /\ 0 <= sim.current_index
               /\ sim.current_index <= total_moves(sim))
    /\ [][(sim.pc = "replay" /\ sim'.calls = sim.calls + 1 /\ sim'.fn = "step_forward")
            => IF sim.current_index < total_moves(sim)
               THEN /\ sim'.ret = TRUE
                    /\ sim'.current_index = sim.current_index + 1
               ELSE /\ sim'.ret = FALSE
                    /\ sim'.current_index = sim.current_index
                    /\ env' = env /\ heap' = heap]_vars
    /\ [][(sim.pc = "replay" /\ sim'.calls = sim.calls + 1 /\ sim'.fn = "step_backward")
            => IF sim.current_index > 0
               THEN /\ sim'.ret = TRUE
                    /\ sim'.current_index = sim.current_index - 1
               ELSE /\ sim'.ret = FALSE
                    /\ sim'.current_index = sim.current_index
                    /\ env' = env /\ heap' = heap]_vars

\* step_forward refused at the end of a replay that was cut short after
\* at least two moves, as the last navigation call made on the engine.
ForwardRefusedAtTruncatedEnd ==
    /\ sim.pc = "replay"
    /\ sim.truncated
    /\ total_moves(sim) >= 2
    /\ sim.calls = MaxCalls
    /\ sim.fn = "step_forward"
    /\ sim.ret = FALSE
    /\ sim.current_index = total_moves(sim)

\* ------------------------------------------------------------------ C34
\* The positions of the charge stations of an environment.
StationsView(h, e) ==
    [i \in 1..Len(e.charge_stations) |-> h[e.charge_stations[i]].position]

\* What robot i (0 or 1) of an environment carries.
CarriedView(h, e, i) == RobotView(h, e.robots[i + 1]).package

\* The packages of the list of an environment, in order.
PackageListView(h, e) == ObjectsView(h, e).packages

\* C34: an apply_operator call never changes a charge station; park
\* changes nothing but num_steps; a move, charge and park leave the package
\* list and what either robot carries as they were; no operator changes the
\* position, battery or carried package of the other robot; and only
\* drop off changes the credit of the other robot.
OperatorFrame ==
    [][IsApply(last'.fn)
       => LET e  == Target(last'.fn, env, cl)
              e2 == Target(last'.fn, env', cl')
              r  == last'.robot
              o  == (last'.robot + 1) % 2
              op == last'.op
              me    == RobotView(heap, e.robots[r + 1])
              me2   == RobotView(heap', e2.robots[r + 1])
              them  == RobotView(heap, e.robots[o + 1])
              them2 == RobotView(heap', e2.robots[o + 1])
          IN  /\ StationsView(heap', e2) = StationsView(heap, e)
              /\ op = "park"
                   => View(heap', [e2 EXCEPT !.num_steps = 0])
                         = View(heap, [e EXCEPT !.num_steps = 0])
              /\ op \in MoveNames \cup {"charge", "park"}
                   => /\ PackageListView(heap', e2) = PackageListView(heap, e)
                      /\ me2.package = me.package
                      /\ them2.package = them.package
              /\ them2.position = them.position
              /\ them2.battery = them.battery
              /\ them2.package = them.package
              /\ op # "drop off" => them2.credit = them.credit]_vars

\* A drop off on the live environment took credit from the other robot.
DropOffTookCredit ==
    /\ last.fn = "apply_operator" /\ last.op = "drop off" /\ last.raised = ""
    /\ get_robot(heap, env, (last.robot + 1) % 2).credit < 0

\* ------------------------------------------------------------------ C35
\* The objects an environment leads to: its robots, the packages of its
\* list, its charge stations and the packages its robots carry.
Reachable(h, e) ==
    {e.robots[i] : i \in 1..Len(e.robots)}
    \cup {e.packages[i] : i \in 1..Len(e.packages)}
    \cup {e.charge_stations[i] : i \in 1..Len(e.charge_stations)}
    \cup {h[e.robots[i]].package : i \in {j \in 1..Len(e.robots) : h[e.robots[j]].package # None}}

\* C35: no object reachable from a clone is an object reachable from the
\* environment it was cloned from.
CloneSharesNoObject ==
    cl # NoEnv => Reachable(heap, cl) \cap Reachable(heap, env) = {}

\* ------------------------------------------------------------------ SpecCredit
\* Games that start with both credits 0 and are played with legal
\* operators while steps remain; `sim' counts the charges made so far.
CreditSteps == 4         \* num_steps of the games played for the credit sum

\* Each robot stands on a package whose destination, one cell away, holds
\* a charge station.
CreditMap ==
    [robots |-> <<MapRobot(0, 0, 5, 0), MapRobot(4, 4, 5, 0)>>,
     packages |-> <<MapPackage(0, 0, 0, 1), MapPackage(4, 4, 4, 3)>>,
     charge_stations |-> <<MapStation(0, 1), MapStation(4, 3)>>]

CreditEnvs ==
    {generate(s, CreditSteps) : s \in GenerateSeeds}
    \cup {load_from_map_data(m, CreditSteps, 0) : m \in {CreditMap, ScenarioMap, StrandedMap}}

CreditSum(h, e) == get_balances(h, e)[1] + get_balances(h, e)[2]

\* env.apply_operator(r, op) with op taken from env.get_legal_operators(r)
PlayLegal(r, op) ==
    /\ sim.pc = "credit"
    /\ last.raised = ""
    /\ env.num_steps > 0
    /\ InSeq(op, get_legal_operators(heap, env, r))
    /\ \E res \in {apply_operator(heap, env, r, op)} :
           /\ heap' = res.heap
           /\ env' = res.env
           /\ last' = Call("apply_operator", r, op, res.raised)
    /\ sim' = [sim EXCEPT !.charges = IF op = "charge" THEN @ + 1 ELSE @]
    /\ UNCHANGED <<cl, search, gui>>

InitCredit ==
    /\ \E i \in CreditEnvs : heap = i.heap /\ env = i.env
    /\ cl = NoEnv
    /\ last = NoCall
    /\ sim = [pc |-> "credit", charges |-> 0]
    /\ search = Idle /\ gui = Idle

NextCredit == \E r \in {0, 1}, op \in Vocabulary : PlayLegal(r, op)

SpecCredit == InitCredit /\ [][NextCredit]_vars

\* ------------------------------------------------------------------ C36
\* C36: from a start with both credits 0 the two credits never add up to
\* more than 0; a charge lowers the sum, every other operator keeps it,
\* and the sum is 0 exactly while no robot has charged.
CreditSumNeverPositive ==
    /\ [](/\ CreditSum(heap, env) <= 0
          /\ (CreditSum(heap, env) = 0) <=> (sim.charges = 0))
    /\ [][last'.fn = "apply_operator"
            => IF last'.op = "charge"
               THEN CreditSum(heap', env') < CreditSum(heap, env)
               ELSE CreditSum(heap', env') = CreditSum(heap, env)]_vars

\* A robot charged what a delivery had earned it.
ChargedAfterDelivery ==
    /\ sim.charges > 0
    /\ last.op = "charge" /\ last.raised = ""
    /\ CreditSum(heap, env) < 0
    /\ get_robot(heap, env, (last.robot + 1) % 2).credit < 0

\* ------------------------------------------------------------------ C37
\* C37: an apply_operator call that fails an assertion leaves robots,
\* packages, charge stations, seed and num_steps of its environment as
\* they were before the call.
FailedCallChangesNothing ==
    [][(IsApply(last'.fn) /\ last'.raised = "AssertionError")
       => View(heap', Target(last'.fn, env', cl')) = View(heap, Target(last'.fn, env, cl))]_vars

\* ------------------------------------------------------------------ C40
\* C40: ReplayEngine(data) raises for no move list; a list that is not
\* replayed to its end, be it for a move outside the legal set or for a
\* legal move past the 2 x count_steps steps of the game, leaves an engine
\* whose diagnostics say truncated.
ConstructionNeverRaises ==
    sim.pc \in {"replay", "raised"}
        => /\ sim.raised = ""
           /\ total_moves(sim) < Len(sim.data.moves) => sim.truncated

\* ------------------------------------------------------------------ SpecCheckpoint
\* Replays long enough to hold a checkpoint between the first and the
\* last one: the moves of a game of CheckpointSteps rounds in which each
\* robot in turn plays the first, or the last, of its legal operators.
CheckpointSteps == 26    \* count_steps of the long replayed game

Policies == {"first", "last"}

\* The moves with Python index i .. n - 1 of such a game and the state
\* they lead to, the first half of them worked out before the second.
RECURSIVE PolicyMoves(_, _, _, _, _)
PolicyMoves(h, e, i, n, policy) ==
    IF i >= n THEN [heap |-> h, env |-> e, moves |-> <<>>, raised |-> ""]
    ELSE IF i + 1 < n
    THEN LET mid   == (i + n) \div 2
             first == PolicyMoves(h, e, i, mid, policy)
             joined(rest) == [rest EXCEPT !.moves = first.moves \o @]
         IN  IF first.raised # "" THEN first
             ELSE joined(PolicyMoves(first.heap, first.env, mid, n, policy))
    ELSE LET legal == get_legal_operators(h, e, i % 2)
             op    == IF policy = "first" THEN legal[1] ELSE legal[Len(legal)]
             played(ap) == [heap |-> ap.heap, env |-> ap.env,
                            moves |-> <<<<i % 2, op>>>>, raised |-> ap.raised]
         IN  played(apply_operator(h, e, i % 2, op))

\* The log of such a game; `cut' replaces its last move by "ILLEGAL_OP".
LongMoves(seed, policy, cut) ==
    LET played(g) == PolicyMoves(g.heap, g.env, 0, 2 * CheckpointSteps, policy).moves
        logged(moves) == IF cut THEN [moves EXCEPT ![Len(moves)] = <<@[1], "ILLEGAL_OP">>]
                         ELSE moves
    IN  logged(played(generate(seed, 2 * CheckpointSteps)))

\* The integers handed to go_to_index: around both ends and around the
\* checkpoint in between.
LongIndices ==
    {0 - 1, 0, 1, CHECKPOINT_INTERVAL - 1, CHECKPOINT_INTERVAL, CHECKPOINT_INTERVAL + 1,
     2 * CheckpointSteps, 2 * CheckpointSteps + 1}

\* engine = ReplayEngine(replay_data) for the log of a long game
OpenLongReplay(seed, policy, cut) ==
    /\ sim = Idle
    /\ \E moves \in {LongMoves(seed, policy, cut)} :
       \E made \in {ReplayEngine(ReplayData(seed, CheckpointSteps, moves))} :
          /\ heap' = made.heap
          /\ env' = made.env
          /\ sim' = made.engine
    /\ UNCHANGED <<cl, last, search, gui>>

NextCheckpoint ==
    \/ \E seed \in GenerateSeeds, policy \in Policies, cut \in BOOLEAN :
          OpenLongReplay(seed, policy, cut)
    \/ StepForward
    \/ StepBackward
    \/ GoToStart
    \/ GoToEnd
    \/ \E index \in LongIndices : GoToIndex(index)

SpecCheckpoint == InitReplay /\ [][NextCheckpoint]_vars

\* ------------------------------------------------------------------ C33
\* What moves[i .. n] of the log, counted from 1 and applied in order,
\* lead to from (h, e), the first half of them applied before the second.
RECURSIVE ReplayedFrom(_, _, _, _, _)
ReplayedFrom(h, e, moves, i, n) ==
    IF i > n THEN [heap |-> h, env |-> e, raised |-> ""]
    ELSE IF i < n
    THEN LET mid   == (i + n) \div 2
             first == ReplayedFrom(h, e, moves, i, mid)
         IN  IF first.raised # "" THEN first
             ELSE ReplayedFrom(first.heap, first.env, moves, mid + 1, n)
    ELSE LET applied(ap) == [heap |-> ap.heap, env |-> ap.env, raised |-> ap.raised]
         IN  applied(apply_operator(h, e, moves[i][1], moves[i][2]))

\* The state the first n moves of the log lead to from the start.
Replayed(data, n) ==
    LET seen(r) == View(r.heap, r.env)
        from(g) == seen(ReplayedFrom(g.heap, g.env, data.moves, 1, n))
    IN  from(generate(data.seed, 2 * data.count_steps))

\* C33: whatever navigation calls were made, the current environment of
\* the engine is the start with moves[0 .. current_index - 1] applied in
\* order, and no navigation call changes a stored checkpoint.
ReplayMatchesMoves ==
    /\ [](sim.pc = "replay" => View(heap, env) = Replayed(sim.data, sim.current_index))
    /\ [][(sim.pc = "replay" /\ sim'.pc = "replay")
            => /\ sim'.checkpoints = sim.checkpoints
               /\ \A k \in DOMAIN sim.checkpoints :
                     View(heap', sim.checkpoints[k]) = View(heap, sim.checkpoints[k])]_vars

\* The engine stands one move past the checkpoint in the middle, which
\* it got to by go_to_index after other navigation calls.
RebuiltFromMiddleCheckpoint ==
    /\ sim.pc = "replay"
    /\ CHECKPOINT_INTERVAL \in DOMAIN sim.checkpoints
    /\ total_moves(sim) > CHECKPOINT_INTERVAL + 1
    /\ sim.fn = "go_to_index"
    /\ sim.calls > 1
    /\ sim.current_index = CHECKPOINT_INTERVAL + 1

\* ------------------------------------------------------------------ SpecCustomReplay
\* A game on a custom map, its log, and the replay of the log.  The game
\* is kept in `gui': the seed of its configuration, which is the one the
\* logger writes, the map, the moves logged so far and the states the
\* live environment went through.
CustomSteps == 3         \* count_steps of the game played on the custom map

ConfigSeeds == {0, 47}

\* GameScreen.__init__ with config.custom_map_data: load_from_map_data
\* draws the seed of the environment with random.randint(0, 255).
LiveGame(seed, map, started) ==
    [heap |-> started.heap, env |-> started.env,
     gui |-> [pc |-> "live", seed |-> seed, count_steps |-> CustomSteps,
              custom_map_data |-> map, current_agent_index |-> 0,
              moves |-> <<>>,
              trail |-> <<ObjectsView(started.heap, started.env)>>]]

\* One move of the live game: the robot whose turn it is plays an operator
\* that is legal for it, and the logger appends the move to the log.
LiveMove(op) ==
    /\ gui.pc = "live" /\ sim = Idle
    /\ env.num_steps > 0
    /\ last.raised = ""
    /\ InSeq(op, get_legal_operators(heap, env, gui.current_agent_index))
    /\ \E res \in {apply_operator(heap, env, gui.current_agent_index, op)} :
           /\ heap' = res.heap
           /\ env' = res.env
           /\ last' = Call("apply_operator", gui.current_agent_index, op, res.raised)
           /\ gui' = [gui EXCEPT !.current_agent_index = (@ + 1) % 2,
                                 !.moves = Append(@, <<gui.current_agent_index, op>>),
                                 !.trail = Append(@, ObjectsView(res.heap, res.env))]
    /\ UNCHANGED <<cl, search, sim>>

\* engine = ReplayEngine(LogParser.parse(filepath)) on the log of the game
OpenLoggedReplay ==
    /\ gui.pc = "live" /\ sim = Idle
    /\ last.raised = ""
    /\ \E made \in {ReplayEngine(ReplayDataOnMap(gui.seed, gui.count_steps, gui.moves,
                                                 gui.custom_map_data))} :
          /\ heap' = made.heap
          /\ env' = made.env
          /\ sim' = made.engine
    /\ UNCHANGED <<cl, last, search, gui>>

InitCustomReplay ==
    /\ \E seed \in ConfigSeeds, drawn \in LoadSeeds :
          \E g \in {LiveGame(seed, DeliveryMap,
                             load_from_map_data(DeliveryMap, 2 * CustomSteps, drawn))} :
             heap = g.heap /\ env = g.env /\ gui = g.gui
    /\ cl = NoEnv
    /\ last = NoCall
    /\ search = Idle /\ sim = Idle

NextCustomReplay ==
    \/ \E op \in Vocabulary : LiveMove(op)
    \/ OpenLoggedReplay

SpecCustomReplay == InitCustomReplay /\ [][NextCustomReplay]_vars

\* ------------------------------------------------------------------ C31
\* The robots and packages of the state the engine rebuilds for index k.
ReplayedObjects(k) ==
    LET seen(res) == ObjectsView(res.heap, res.env)
    IN  seen(_reconstruct_state(sim, heap, k))

\* C31: the replay of the log of a game played on a custom map, made with
\* the logged seed, takes every logged move as legal and goes through the
\* states the live game went through, spawned packages included.
ReplayFollowsLiveGame ==
    (gui.pc = "live" /\ sim.pc \in {"replay", "raised"})
        => /\ sim.pc = "replay"
           /\ ~sim.truncated
           /\ total_moves(sim) = Len(gui.moves)
           /\ \A k \in 0..total_moves(sim) : ReplayedObjects(k) = gui.trail[k + 1]

\* -------------------------------------------------------------- SpecRun
\* GameSimulator.run() on its own.  The environment is the one __init__
\* generates or loads with 2 * count_steps steps, or a pre-configured one
\* handed in as `env' with a single step left.
RunNumSteps == {1, 2 * CountSteps}

InitRun ==
    /\ \E n \in RunNumSteps : \E i \in GameEnvs(n) : heap = i.heap /\ env = i.env
    /\ cl = NoEnv
    /\ last = NoCall
    /\ search = Idle /\ sim = Idle /\ gui = Idle

\* The child is still alive at the hard deadline and the turn is forfeited.
RunTurnTimesOut == \E limit \in GameLimits : SimTurn(limit, "alive")

\* The child has exited, with or without a result on the queue.
RunTurnAnswered == \E limit \in GameLimits, f \in Fates \ {"alive"} : SimTurn(limit, f)

RunTurn == RunTurnTimesOut \/ RunTurnAnswered

NextRun ==
    \/ \E names \in AgentPairs : SimRun(names)
    \/ RunTurn

\* run() is a sequential loop and execute_agent_step returns after at most
\* time_limit + GRACE_PERIOD: a turn that can be taken is taken.
SpecRun == InitRun /\ [][NextRun]_vars /\ WF_vars(RunTurn)

\* ----------------------------------------------------------------- C38
RunEnded == sim.pc \in {"finished", "error"}

\* The turn just taken was forfeited, or its operator was applied.
TurnForfeited == sim.pc = "turn" /\ sim' # sim /\ sim'.step.timed_out

TurnApplied ==
    /\ sim.pc = "turn" /\ sim' # sim
    /\ ~sim'.step.timed_out /\ sim'.step.error = ""
    /\ sim'.pc # "error"

\* C38: run() always ends with a GameResult.  Its turns are numbered
\* 2 * round_num + agent_index with round_num < count_steps, the first is
\* robot 0's and each next one is the other robot's; steps_taken goes up by
\* one in exactly the applied and the forfeited turns and is at most
\* 2 * count_steps; every applied operator takes one of the remaining steps
\* and none is applied once they are used up.
RunTerminates ==
    /\ [](sim.pc = "turn" =>
             /\ sim.round_num < CountSteps /\ sim.agent_index \in {0, 1}
             /\ sim.steps_taken = 2 * sim.round_num + sim.agent_index)
    /\ [](sim.pc # "idle" => sim.steps_taken <= 2 * CountSteps)
    /\ [](RunEnded => sim.result.steps_taken = sim.steps_taken)
    /\ [][sim.pc = "idle" /\ sim'.pc = "turn"
            => sim'.round_num = 0 /\ sim'.agent_index = 0]_vars
    /\ [][sim.pc = "turn" /\ sim'.pc = "turn"
            => /\ sim'.agent_index = 1 - sim.agent_index
               /\ sim'.round_num = sim.round_num + sim.agent_index]_vars
    /\ [][sim.pc = "turn" /\ sim' # sim
            => sim'.steps_taken = sim.steps_taken
                   + (IF TurnForfeited \/ TurnApplied THEN 1 ELSE 0)]_vars
    /\ [][TurnForfeited => env' = env /\ heap' = heap]_vars
    /\ [][TurnApplied
            => env'.num_steps = env.num_steps - 1 /\ env'.num_steps >= 0]_vars
    /\ (sim.pc = "turn") ~> RunEnded

\* A game in which every turn timed out has ended after 2 * count_steps
\* forfeited turns with no step of the environment used.
EveryTurnTimedOut ==
    /\ sim.pc = "finished"
    /\ sim.steps_taken = 2 * CountSteps
    /\ sim.timeout_flags = <<TRUE, TRUE>>
    /\ env.num_steps = 2 * CountSteps

\* ----------------------------------------------------------- SpecScreen
\* The game screen, just constructed, and its worker threads.  Besides the
\* screen, a record is kept of what every live thread was started for, which
\* the program itself does not keep: the robot it computes for and the
\* state of the environment it cloned, the StepResult of the computation
\* started last, whether a computation was ever started while another was
\* still running, and what the thread that ended last had been started for.
ScreenThreads == 2     \* AgentWorker threads alive at the same time

ScreenRounds == 1      \* last current_round in which the screen starts a computation

ScreenFates == {"finished", "alive"}

NoComputation == [robot |-> 0 - 1, state |-> <<>>]

NoWorker ==
    [pc |-> "worker", flight |-> <<>>, latest |-> NoStep, overlapped |-> FALSE,
     delivered |-> NoComputation]

\* The record after a step of the main thread from screen g to screen g2.
Noted(w, h, e, g, g2) ==
    IF Len(g2.threads) > Len(g.threads)
    THEN [w EXCEPT !.flight = Append(@, [robot |-> g.current_agent_index,
                                          state |-> View(h, e)]),
                   !.latest = g2.threads[Len(g2.threads)],
                   !.overlapped = @ \/ Len(g.threads) > 0,
                   !.delivered = NoComputation]
    ELSE w

ScreenEvent(button, limit, fate) ==
    /\ gui.pc = "open"
    /\ button \in gui.enabled
    /\ Starts(gui, button, FALSE)
          => Len(gui.threads) < ScreenThreads /\ gui.current_round <= ScreenRounds
    /\ \E res \in {GameScreen_handle_event(heap, env, gui, button, limit, fate)} :
           /\ heap' = res.heap
           /\ env' = res.env
           /\ gui' = res.gui
           /\ search' = Noted(search, heap, env, gui, res.gui)
    /\ UNCHANGED <<cl, last, sim>>

ScreenWorkerRun(i) ==
    /\ gui.pc = "open"
    /\ i \in 1..Len(gui.threads)
    /\ gui' = AgentWorker_run(gui, i)
    /\ search' = [search EXCEPT
                     !.delivered = search.flight[i],
                     !.flight = SubSeq(@, 1, i - 1) \o SubSeq(@, i + 1, Len(@))]
    /\ UNCHANGED <<heap, env, cl, last, sim>>

ScreenUpdate(elapsed, limit, fate) ==
    /\ gui.pc = "open"
    /\ Starts(gui, "update", elapsed) /\ ~done(heap, env)
          => Len(gui.threads) < ScreenThreads /\ gui.current_round <= ScreenRounds
    /\ \E res \in {GameScreen_update(heap, env, gui, elapsed, limit, fate)} :
           /\ heap' = res.heap
           /\ env' = res.env
           /\ gui' = res.gui
           /\ search' = Noted(search, heap, env, gui, res.gui)
    /\ UNCHANGED <<cl, last, sim>>

InitScreen ==
    /\ \E i \in {generate(47, 2 * CountSteps)} : heap = i.heap /\ env = i.env
    /\ cl = NoEnv
    /\ last = NoCall
    /\ search = NoWorker /\ sim = Idle
    /\ \E names \in ScreenAgentPairs : gui = GameScreen(names)

NextScreen ==
    \/ \E b \in Buttons, limit \in ScreenLimits, f \in ScreenFates : ScreenEvent(b, limit, f)
    \/ \E i \in 1..ScreenThreads : ScreenWorkerRun(i)
    \/ \E elapsed \in BOOLEAN, limit \in ScreenLimits, f \in ScreenFates :
          ScreenUpdate(elapsed, limit, f)

SpecScreen == InitScreen /\ [][NextScreen]_vars

\* ----------------------------------------------------------------- C39
\* The main thread starts a computation.
ComputationStarted ==
    gui.pc = "open" /\ gui'.pc = "open" /\ Len(gui'.threads) > Len(gui.threads)

\* update() applies the operator the worker delivered.
OperatorTaken ==
    /\ gui.pc = "open" /\ gui'.pc = "open"
    /\ gui.game_state = "COMPUTING" /\ gui.worker_done
    /\ gui'.game_state # "COMPUTING"
    /\ gui.worker_result.error = "" /\ ~gui.worker_result.timed_out

\* C39: at most one agent computation is in flight; a computation is started
\* only when the screen is not in COMPUTING, FINISHED or FINISHED_ERROR; the
\* operator update() applies was computed for the current robot on the
\* current live state.
OneComputationInFlight ==
    /\ [](gui.pc = "open" => Len(gui.threads) <= 1)
    /\ [][ComputationStarted
            => gui.game_state \notin {"COMPUTING", "FINISHED", "FINISHED_ERROR"}]_vars
    /\ [][OperatorTaken
            => search.delivered = [robot |-> gui.current_agent_index,
                                   state |-> View(heap, env)]]_vars

\* ----------------------------------------------------------------- C32
\* C32: as long as no computation was started while an earlier one was
\* still running, is_done() is True only with get_result() the StepResult
\* of the computation started last, which is not None.
DoneResultIsLatest ==
    gui.pc = "open" /\ ~search.overlapped /\ gui.worker_done
        => gui.worker_result = search.latest /\ gui.worker_result # NoStep

\* The worker is done with its second computation, the one for robot 1,
\* and no two computations ever ran at the same time.
SecondResultDelivered ==
    /\ gui.pc = "open" /\ ~search.overlapped
    /\ gui.game_state = "COMPUTING" /\ gui.worker_done
    /\ gui.current_agent_index = 1
    /\ search.delivered.robot = 1
====
